---- MODULE Spec2Model ----
(***************************************************************************)
(* A model of the atium interpreter front end: token model, environment    *)
(* (scope chain), tree-walking evaluator, parser and the lex -> parse ->   *)
(* interpret pipeline.  Text is modelled as sequences of one-character     *)
(* strings.                                                                *)
(***************************************************************************)
EXTENDS Integers, Sequences, FiniteSets, TLC

VARIABLES
    env,      \* Interpreter::env, the current Env: <<current scope, parent scope, ...>>
    saved,    \* the prev_env locals of the execute_block frames in progress, innermost first
    out,      \* lines written to standard output by the print statements
    errs,     \* the reports collected by interpret, in order; for a run, the reports it returns
    status,   \* the interpreter: "idle" (not built yet), "running", "done" (interpret
              \* returned) or "panicked" (the process aborted)
    result,   \* what the run returned: "none" (not yet), "Ok" or "Err"
    nsteps,   \* statements (blocks included) begun so far; statement k sits on line k
    last,     \* the statement executed by the last step and the outcome of its expression
    src,      \* the source text handed to Atium::new
    lexed,    \* what the lexer returned
    token_stream,  \* the tokens handed to Parser::new
    parsed,   \* what Parser::parse returned
    pratt,    \* what the binding-power parser of parser/expr.rs returned for token_stream
    stage,    \* the stage the run is in: "Lexing", "Parsing", "Interpreting", "Done", "Aborted"
    program,  \* Interpreter::stmts, the statements interpret has still to execute
    cursor,   \* Atium::cursor, the Cursor: its iter, tokens and line
    descent,  \* what Parser::expression of parser.rs returned for token_stream
    scan_errors,   \* the errors local of a scan_tokens call in progress
    recovered      \* the outcome of a Parser::sync call, NoSync before it

interp == <<env, saved, out, errs, status, result, nsteps, last>>

pipe == <<src, lexed, token_stream, parsed, pratt, descent, stage, program, cursor, scan_errors, recovered>>

vars == <<env, saved, out, errs, status, result, nsteps, last,
          src, lexed, token_stream, parsed, pratt, descent, stage, program, cursor, scan_errors, recovered>>

(***************************************************************************)
(* Bounds of the model.                                                    *)
(***************************************************************************)
MaxStmts == 5   \* statements (blocks included) of one program

MaxToks == 4    \* tokens of a token stream handed to the parser

MaxChars == 3   \* characters of a source text that is scanned turn by turn

MaxProg == 3    \* statements of a program that is interpreted from its first statement on

MaxPieces == 3  \* pieces (an operand, an operator and its operand, ...) of an expression

MaxChunks == 4  \* pieces (a keyword, a digit, an operator, ...) of a source text

(***************************************************************************)
(* token/value.rs: Value and its Type projection.  A value is a record of  *)
(* one shape: t the variant, i the integer/boolean payload, s the text.    *)
(* NoValue is Option::None where an Option<Value> is stored.               *)
(***************************************************************************)
NoValue == [t |-> "None", i |-> 0, s |-> <<>>]

Integer(n) == [t |-> "Integer", i |-> n, s |-> <<>>]

String(cs) == [t |-> "String", i |-> 0, s |-> cs]

Boolean(b) == [t |-> "Boolean", i |-> IF b THEN 1 ELSE 0, s |-> <<>>]

\* impl From<Value> for Type
TypeOf(v) == v.t

DigitChar(d) == <<"0", "1", "2", "3", "4", "5", "6", "7", "8", "9">>[d + 1]

RECURSIVE Digits(_)
\* the decimal digits of a natural number, as write!(f, "{a}") prints them
Digits(n) == IF n < 10 THEN <<DigitChar(n)>> ELSE Digits(n \div 10) \o <<DigitChar(n % 10)>>

\* impl Display for Value
Display(v) ==
    CASE v.t = "String"  -> v.s
      [] v.t = "Integer" -> IF v.i < 0 THEN <<"-">> \o Digits(-v.i) ELSE Digits(v.i)
      [] v.t = "Boolean" -> IF v.i = 1 THEN <<"t", "r", "u", "e">> ELSE <<"f", "a", "l", "s", "e">>
      [] OTHER           -> <<"N", "u", "l", "l">>

(***************************************************************************)
(* Tokens: kind, lexeme, optional literal, source line.                    *)
(***************************************************************************)
Token(kind, lex, literal, line) == [kind |-> kind, lex |-> lex, literal |-> literal, line |-> line]

NoTok == Token("None", <<>>, NoValue, 0)

\* mutant of TokenEq: the position is part of a token's identity
TokenEqPosition(a, b) == a.kind = b.kind /\ a.lex = b.lex /\ a.line = b.line

\* impl PartialEq, Eq and Hash for Token: over (kind, lexeme) only, so that
\* the source position of a token is no part of its identity as a map key.
TokenEq(a, b) == a.kind = b.kind /\ a.lex = b.lex

(***************************************************************************)
(* ast: Expr and Stmt.  Every node has one shape: tag, tok (the literal,   *)
(* name or operator token) and args (the sub-expressions).                 *)
(***************************************************************************)
Literal(tok) == [tag |-> "Literal", tok |-> tok, args |-> <<>>]

Grouping(e) == [tag |-> "Grouping", tok |-> NoTok, args |-> <<e>>]

Variable(name) == [tag |-> "Variable", tok |-> name, args |-> <<>>]

Assignment(name, e) == [tag |-> "Assignment", tok |-> name, args |-> <<e>>]

Unary(op, e) == [tag |-> "Unary", tok |-> op, args |-> <<e>>]

Binary(l, op, r) == [tag |-> "Binary", tok |-> op, args |-> <<l, r>>]

NoExpr == [tag |-> "None", tok |-> NoTok, args |-> <<>>]

StmtExpr(e) == [tag |-> "Expr", name |-> NoTok, expr |-> e]

StmtPrint(e) == [tag |-> "Print", name |-> NoTok, expr |-> e]

\* Stmt::Var { name, value }: expr is NoExpr when there is no initialiser
StmtVar(name, e) == [tag |-> "Var", name |-> name, expr |-> e]

NoStmt == [tag |-> "None", name |-> NoTok, expr |-> NoExpr]

(***************************************************************************)
(* error.rs: diagnostics.  kind names the variant; lex, found and expected *)
(* are its fields (empty where the variant has none).                      *)
(***************************************************************************)
Error(kind, lex, found, expected) == [kind |-> kind, lex |-> lex, found |-> found, expected |-> expected]

NoError == Error("None", <<>>, <<>>, <<>>)

(***************************************************************************)
(* environment.rs: Env.  An Env is the sequence of its scopes, its own map *)
(* first and then the maps of the parent chain it owns.  A scope maps a    *)
(* key to the value of the binding, NoValue for a declared, uninitialised  *)
(* one.  The Rc<RefCell<Value>> cells are never written through (get       *)
(* clones the content, assign and define insert fresh cells), so a cell is *)
(* modelled by its value.                                                  *)
(***************************************************************************)
EmptyScope == [k \in {} |-> NoValue]

\* the entry of a HashMap<Token, _> that a token hashes to and compares equal to
Slot(scope, tok) == {k \in DOMAIN scope : TokenEq(k, tok)}

\* HashMap::contains_key
contains_key(scope, tok) == Slot(scope, tok) # {}

\* HashMap::get on a key that is present
Lookup(scope, tok) == scope[CHOOSE k \in Slot(scope, tok) : TRUE]

\* HashMap::insert: the value of an equal key is replaced (the stored key is
\* kept), a new key is added
Insert(scope, tok, v) ==
    IF contains_key(scope, tok)
    THEN [k \in DOMAIN scope |-> IF TokenEq(k, tok) THEN v ELSE scope[k]]
    ELSE [k \in (DOMAIN scope) \cup {tok} |-> IF k = tok THEN v ELSE scope[k]]

\* Env::new
EnvNew == <<EmptyScope>>

\* mutant of define: a name already declared in the scope keeps its first binding
defineFirst(e, ident, value) ==
    IF \E k \in DOMAIN e[1] : k.kind = ident.kind /\ k.lex = ident.lex
    THEN e
    ELSE [e EXCEPT ![1] = [k \in (DOMAIN e[1]) \cup {ident} |-> IF k = ident THEN value ELSE e[1][k]]]

\* Env::define
define(e, ident, value) == [e EXCEPT ![1] = Insert(e[1], ident, value)]

RECURSIVE get(_, _)
\* Env::get: found is the outer Option, val the inner one
get(e, ident) ==
    IF contains_key(e[1], ident)
    THEN [found |-> TRUE, val |-> Lookup(e[1], ident)]
    ELSE IF Len(e) = 1
         THEN [found |-> FALSE, val |-> NoValue]
         ELSE get(Tail(e), ident)

\* mutant of assign: a name that no scope binds is declared in the current scope
assignDeclare(e, ident, value) ==
    LET hit == {i \in 1..Len(e) : \E k \in DOMAIN e[i] : k.kind = ident.kind /\ k.lex = ident.lex}
        i   == IF hit = {} THEN 1 ELSE CHOOSE n \in hit : \A m \in hit : n <= m
    IN  [ok |-> TRUE, env |-> [e EXCEPT ![i] = Insert(e[i], ident, value)]]

\* mutant of assign: the binding is written into the current scope, wherever
\* on the chain the name was found
assignCurrent(e, ident, value) ==
    IF \E i \in 1..Len(e) : \E k \in DOMAIN e[i] : k.kind = ident.kind /\ k.lex = ident.lex
    THEN [ok |-> TRUE, env |-> [e EXCEPT ![1] = Insert(e[1], ident, value)]]
    ELSE [ok |-> FALSE, env |-> e]

RECURSIVE assign(_, _, _)
\* Env::assign: ok is FALSE for the InvalidAssignmentTarget error
assign(e, ident, value) ==
    IF contains_key(e[1], ident)
    THEN [ok |-> TRUE, env |-> [e EXCEPT ![1] = Insert(e[1], ident, value)]]
    ELSE IF Len(e) = 1
         THEN [ok |-> FALSE, env |-> e]
         ELSE LET r == assign(Tail(e), ident, value)
              IN  [ok |-> r.ok, env |-> <<e[1]>> \o r.env]

\* Env::set_parent
set_parent(e, parent) == <<e[1]>> \o parent

(***************************************************************************)
(* interpreter.rs: the evaluator.  An evaluation ends "Ok" with a value,   *)
(* "Err" with a report, or "Panic" when the process aborts; env is the     *)
(* environment it leaves.  held says that a RefMut of Interpreter::env is  *)
(* alive in a caller: the Assignment arm takes self.env.borrow_mut() as    *)
(* the receiver before it evaluates the argument self.expression(val), and *)
(* a second borrow_mut of the same RefCell panics.                         *)
(***************************************************************************)
Res(st, val, err, e) == [st |-> st, val |-> val, err |-> err, env |-> e]

Ok(val, e) == Res("Ok", val, NoError, e)

Err(err, e) == Res("Err", NoValue, err, e)

Panic(e) == Res("Panic", NoValue, NoError, e)

\* mutant of get_var: a declared, uninitialised variable reads as Null
get_varNull(e, ident, held) ==
    IF held
    THEN Panic(e)
    ELSE LET g == get(e, ident)
         IN  IF ~g.found
             THEN Err(Error("InvalidIdent", ident.lex, <<>>, <<>>), e)
             ELSE IF g.val = NoValue
                  THEN Ok([t |-> "Null", i |-> 0, s |-> <<>>], e)
                  ELSE Ok(g.val, e)

\* Interpreter::get_var
get_var(e, ident, held) ==
    IF held
    THEN Panic(e)
    ELSE LET g == get(e, ident)
         IN  IF ~g.found
             THEN Err(Error("InvalidIdent", ident.lex, <<>>, <<>>), e)
             ELSE IF g.val = NoValue
                  THEN Err(Error("UninitialisedVar", ident.lex, <<>>, <<>>), e)
                  ELSE Ok(g.val, e)

\* a / b of Rust integers: the quotient truncated toward zero
TruncDiv(a, b) ==
    LET q == (IF a < 0 THEN -a ELSE a) \div (IF b < 0 THEN -b ELSE b)
    IN  IF (a < 0) = (b < 0) THEN q ELSE -q

\* the Unary arm's match on op.kind
UnaryOp(op, v, e) ==
    CASE op.kind = "Minus" ->
             IF v.t = "Integer"
             THEN Ok(Integer(-v.i), e)
             ELSE Err(Error("InvalidType", <<>>, <<TypeOf(v)>>, << <<"Integer">> >>), e)
      [] op.kind = "Bang" ->
             IF v.t = "Boolean"
             THEN Ok(Boolean(v.i = 0), e)
             ELSE Err(Error("InvalidType", <<>>, <<TypeOf(v)>>, << <<"Boolean">> >>), e)
      [] OTHER -> Err(Error("InvalidOperator", op.lex, <<>>, << <<"-">>, <<"!">> >>), e)

\* mutant of PlusArm: two strings are not added, and the report names the
\* types of the operands the other way round
PlusArmIntegers(op, l, r, e) ==
    IF l.t = "Integer" /\ r.t = "Integer"
    THEN Ok(Integer(l.i + r.i), e)
    ELSE Err(Error("InvalidTypes", op.lex, <<TypeOf(r), TypeOf(l)>>,
                   << <<"Integer", "Integer">> >>), e)

\* the TokenKind::Plus arm of the Binary arm's match on op.kind
PlusArm(op, l, r, e) ==
    IF l.t = "Integer" /\ r.t = "Integer"
    THEN Ok(Integer(l.i + r.i), e)
    ELSE IF l.t = "String" /\ r.t = "String"
         THEN Ok(String(l.s \o r.s), e)
         ELSE Err(Error("InvalidTypes", op.lex, <<TypeOf(l), TypeOf(r)>>,
                        << <<"Integer", "Integer">>, <<"String", "String">> >>), e)

\* the Binary arm's match on op.kind
BinaryOp(op, l, r, e) ==
    LET ints  == l.t = "Integer" /\ r.t = "Integer"
        found == <<TypeOf(l), TypeOf(r)>>
        II    == <<"Integer", "Integer">>
    IN  CASE op.kind = "Slash" ->
                 IF ints
                 THEN IF r.i = 0 THEN Panic(e) ELSE Ok(Integer(TruncDiv(l.i, r.i)), e)
                 ELSE Err(Error("InvalidTypes", op.lex, found, <<II>>), e)
          [] op.kind = "Minus" ->
                 IF ints
                 THEN Ok(Integer(l.i - r.i), e)
                 ELSE Err(Error("InvalidTypes", op.lex, found, <<II>>), e)
          [] op.kind = "Star" ->
                 IF ints
                 THEN Ok(Integer(l.i * r.i), e)
                 ELSE Err(Error("InvalidTypes", op.lex, found, <<II>>), e)
          [] op.kind = "Plus" -> PlusArm(op, l, r, e)
          [] OTHER -> Err(Error("InvalidOperator", op.lex, <<>>,
                               << <<"+">>, <<"/">>, <<"-">>, <<"*">> >>), e)

RECURSIVE expression(_, _, _)
RECURSIVE BinaryArm(_, _, _)
RECURSIVE BinaryRightFirst(_, _, _)

\* mutant of BinaryArm: the right operand is evaluated before the left one
BinaryRightFirst(expr, e, held) ==
    LET r == expression(expr.args[2], e, held)
    IN  IF r.st # "Ok"
        THEN r
        ELSE LET l == expression(expr.args[1], r.env, held)
             IN  IF l.st # "Ok" THEN l ELSE BinaryOp(expr.tok, l.val, r.val, l.env)

\* the Expr::Binary arm of Interpreter::expression
BinaryArm(expr, e, held) ==
    LET l == expression(expr.args[1], e, held)
    IN  IF l.st # "Ok"
        THEN l
        ELSE LET r == expression(expr.args[2], l.env, held)
             IN  IF r.st # "Ok" THEN r ELSE BinaryOp(expr.tok, l.val, r.val, r.env)

\* Interpreter::expression
expression(expr, e, held) ==
    CASE expr.tag = "Literal" ->
             IF expr.tok.literal = NoValue THEN Panic(e) ELSE Ok(expr.tok.literal, e)
      [] expr.tag = "Grouping" -> expression(expr.args[1], e, held)
      [] expr.tag = "Variable" -> get_var(e, expr.tok, held)
      [] expr.tag = "Assignment" ->
             IF held
             THEN Panic(e)
             ELSE LET v == expression(expr.args[1], e, TRUE)
                  IN  IF v.st # "Ok"
                      THEN v
                      ELSE LET a == assign(v.env, expr.tok, v.val)
                           IN  IF a.ok
                               THEN Ok(v.val, a.env)
                               ELSE Err(Error("InvalidAssignmentTarget", <<>>, <<>>, <<>>), a.env)
      [] expr.tag = "Unary" ->
             LET v == expression(expr.args[1], e, held)
             IN  IF v.st # "Ok" THEN v ELSE UnaryOp(expr.tok, v.val, v.env)
      [] expr.tag = "Binary" -> BinaryArm(expr, e, held)
      [] OTHER -> Panic(e)

\* mutant of def_var: the name is defined, without a value, when the
\* initialiser fails
def_varAlways(e, ident, value) ==
    IF value # NoExpr
    THEN LET v == expression(value, e, FALSE)
         IN  IF v.st = "Ok"
             THEN Ok(v.val, define(v.env, ident, v.val))
             ELSE Res(v.st, NoValue, v.err, define(v.env, ident, NoValue))
    ELSE Ok(NoValue, define(e, ident, NoValue))

\* Interpreter::def_var
def_var(e, ident, value) ==
    IF value # NoExpr
    THEN LET v == expression(value, e, FALSE)
         IN  IF v.st = "Ok" THEN Ok(v.val, define(v.env, ident, v.val)) ELSE v
    ELSE Ok(NoValue, define(e, ident, NoValue))

\* Interpreter::execute for Stmt::Expr, Stmt::Print and Stmt::Var: the
\* outcome of the statement's expression and the environment it leaves
execute(stmt, e) ==
    CASE stmt.tag = "Var" -> def_var(e, stmt.name, stmt.expr)
      [] OTHER            -> expression(stmt.expr, e, FALSE)

\* Interpreter::print: the line println! writes, if the expression evaluated
Printed(stmt, r) == IF stmt.tag = "Print" /\ r.st = "Ok" THEN <<Display(r.val)>> ELSE <<>>

(***************************************************************************)
(* lexer.rs: Cursor.  A cursor is the record of its iter (the characters   *)
(* not yet consumed), its tokens and its line.  A scan ends "Ok" with the  *)
(* tokens, "Err" with the reports, "Panic" when the process aborts, or     *)
(* "Diverge" when the scan never returns.  The tokens field of a result    *)
(* that is not "Ok" holds the tokens the scan had collected, which the     *)
(* code drops.                                                             *)
(***************************************************************************)
Letters ==
    {"a", "b", "c", "d", "e", "f", "g", "h", "i", "j", "k", "l", "m",
     "n", "o", "p", "q", "r", "s", "t", "u", "v", "w", "x", "y", "z",
     "A", "B", "C", "D", "E", "F", "G", "H", "I", "J", "K", "L", "M",
     "N", "O", "P", "Q", "R", "S", "T", "U", "V", "W", "X", "Y", "Z"}

AsciiDigits == {"0", "1", "2", "3", "4", "5", "6", "7", "8", "9"}

\* Cursor::new: the reserved words and their token kinds
Reserved ==
    {<< <<"a", "n", "d">>, "And">>,
     << <<"c", "l", "a", "s", "s">>, "Class">>,
     << <<"e", "l", "s", "e">>, "Else">>,
     << <<"f", "a", "l", "s", "e">>, "False">>,
     << <<"f", "u", "n">>, "Fun">>,
     << <<"f", "o", "r">>, "For">>,
     << <<"i", "f">>, "If">>,
     << <<"n", "i", "l">>, "Nil">>,
     << <<"o", "r">>, "Or">>,
     << <<"p", "r", "i", "n", "t">>, "Print">>,
     << <<"r", "e", "t", "u", "r", "n">>, "Return">>,
     << <<"s", "u", "p", "e", "r">>, "Super">>,
     << <<"t", "h", "i", "s">>, "This">>,
     << <<"t", "r", "u", "e">>, "True">>,
     << <<"v", "a", "r">>, "Var">>,
     << <<"w", "h", "i", "l", "e">>, "While">>}

\* the one-character tokens of scan_tokens
SingleChar ==
    {<<"(", "LeftParen">>, <<")", "RightParen">>, <<"{", "LeftBrace">>,
     <<"}", "RightBrace">>, <<",", "Comma">>, <<".", "Dot">>, <<"-", "Minus">>,
     <<"+", "Plus">>, <<";", "Semicolon">>, <<"*", "Star">>}

\* the entry of a table of pairs whose first component is key
Entry(table, key) == (CHOOSE p \in table : p[1] = key)[2]

HasEntry(table, key) == \E p \in table : p[1] = key

\* the number of leading characters of cs that belong to set
Span(cs, set) ==
    LET bad == {i \in 1..Len(cs) : cs[i] \notin set}
    IN  IF bad = {} THEN Len(cs) ELSE (CHOOSE i \in bad : \A j \in bad : i <= j) - 1

\* the position of the first character of cs that is c, 0 if there is none
Find(cs, c) ==
    LET hit == {i \in 1..Len(cs) : cs[i] = c}
    IN  IF hit = {} THEN 0 ELSE CHOOSE i \in hit : \A j \in hit : i <= j

\* cs without its first n characters
Drop(cs, n) == SubSeq(cs, n + 1, Len(cs))

RECURSIVE ParseInt(_)
\* str::parse::<i128> of a run of digits
ParseInt(cs) ==
    IF cs = <<>> THEN 0
    ELSE 10 * ParseInt(SubSeq(cs, 1, Len(cs) - 1))
         + (CHOOSE d \in 0..9 : DigitChar(d) = cs[Len(cs)])

\* Value::Float: a float is represented by the text it was parsed from
Float(cs) == [t |-> "Float", i |-> 0, s |-> cs]

CursorNew(cs) == [iter |-> cs, tokens |-> <<>>, line |-> 0]

\* Cursor::add_token
add_token(cur, tt, lex, lit) == [cur EXCEPT !.tokens = Append(@, Token(tt, lex, lit, cur.line))]

\* Cursor::handle_two_char_op
handle_two_char_op(cur, curr, predicate, success, failure) ==
    IF cur.iter = <<>>
    THEN cur
    ELSE IF Head(cur.iter) = predicate
         THEN add_token([cur EXCEPT !.iter = Tail(@)], success, <<curr, predicate>>, NoValue)
         ELSE add_token(cur, failure, <<predicate>>, NoValue)

ScanRes(st, cur, errors) == [st |-> st, tokens |-> cur.tokens, errs |-> errors]

\* the outcome of one turn of the loop of scan_tokens: "Go" on to the next
\* turn, or the scan ends here ("Panic", "Diverge")
Stop(st, cur, errors) == [st |-> st, cur |-> cur, errors |-> errors]

Go(cur, errors) == Stop("Go", cur, errors)

\* mutant of UnexpectedCharacter: the scan returns at its first report
UnexpectedCharacterAbort(c, chr, errors) ==
    Stop("Err", c, Append(errors, Error("UnexpectedCharacter", <<chr>>, <<>>, <<>>)))

\* the _ arm of scan_tokens: errors.push(SyntaxError::UnexpectedCharacter(chr))
UnexpectedCharacter(c, chr, errors) ==
    Go(c, Append(errors, Error("UnexpectedCharacter", <<chr>>, <<>>, <<>>)))

\* one turn of the loop of Cursor::scan_tokens, for an iter that is not empty
scan_step(cur, errors) ==
    LET chr == Head(cur.iter)
        c   == [cur EXCEPT !.iter = Tail(@)]
    IN  CASE HasEntry(SingleChar, chr) ->
                 Go(add_token(c, Entry(SingleChar, chr), <<chr>>, NoValue), errors)
          [] chr = "!" -> Go(handle_two_char_op(c, chr, "=", "BangEqual", "Bang"), errors)
          [] chr = "=" -> Go(handle_two_char_op(c, chr, "=", "EqualEqual", "EqualEqual"), errors)
          [] chr = "<" -> Go(handle_two_char_op(c, chr, "=", "LessEqual", "Less"), errors)
          [] chr = ">" -> Go(handle_two_char_op(c, chr, "=", "GreaterEqual", "Greater"), errors)
          [] chr = "/" ->
                 IF c.iter = <<>>
                 THEN Stop("Panic", c, errors)
                 ELSE IF Head(c.iter) = "/"
                      THEN LET nl == Find(c.iter, "\n")
                           IN  Go([c EXCEPT !.iter = IF nl = 0 THEN <<>> ELSE Drop(@, nl),
                                                   !.line = @ + 1], errors)
                      ELSE Go(add_token(c, "Slash", <<chr>>, NoValue), errors)
          [] chr = "\"" ->
                 LET q == Find(c.iter, "\"")
                 IN  IF q = 0   \* the None arm pushes its report and loops, for ever
                     THEN Stop("Diverge", c,
                                  Append(errors, Error("ExpectedCharacter", <<>>,
                                                       <<"E", "O", "F">>, << <<"\"">> >>)))
                     ELSE LET lit == SubSeq(c.iter, 1, q - 1)
                          IN  Go(add_token([c EXCEPT !.iter = Drop(@, q)], "Str",
                                                  <<"\"">> \o lit \o <<"\"">>, String(lit)),
                                        errors)
          [] chr \in AsciiDigits ->
                 LET n   == Span(c.iter, AsciiDigits \cup {"."})
                     num == <<chr>> \o SubSeq(c.iter, 1, n)
                     dots == Cardinality({i \in 1..Len(num) : num[i] = "."})
                     c2  == [c EXCEPT !.iter = Drop(@, n)]
                 IN  IF dots = 0
                     THEN Go(add_token(c2, "Number", num, Integer(ParseInt(num))), errors)
                     ELSE IF dots = 1
                          THEN Go(add_token(c2, "Number", num, Float(num)), errors)
                          ELSE Stop("Panic", c2, errors)
          [] chr \in Letters ->
                 LET n     == Span(c.iter, Letters \cup (AsciiDigits \ {"0"}))
                     ident == <<chr>> \o SubSeq(c.iter, 1, n)
                     c2    == [c EXCEPT !.iter = Drop(@, n)]
                 IN  IF HasEntry(Reserved, ident)
                     THEN LET tt == Entry(Reserved, ident)
                          IN  Go(add_token(c2, tt, ident,
                                                  CASE tt = "True"  -> Boolean(TRUE)
                                                    [] tt = "False" -> Boolean(FALSE)
                                                    [] OTHER        -> NoValue),
                                        errors)
                     ELSE Go(add_token(c2, "Identifier", ident, NoValue), errors)
          [] chr = "\n" -> Go([c EXCEPT !.line = @ + 1], errors)
          [] chr \in {"\r", "\t", " "} -> Go(c, errors)
          [] OTHER -> UnexpectedCharacter(c, chr, errors)

RECURSIVE scan_loop(_, _)
\* the loop of Cursor::scan_tokens and the return that follows it
scan_loop(cur, errors) ==
    IF cur.iter = <<>>
    THEN ScanRes(IF errors = <<>> THEN "Ok" ELSE "Err", cur, errors)
    ELSE LET s == scan_step(cur, errors)
         IN  IF s.st = "Go" THEN scan_loop(s.cur, s.errors) ELSE ScanRes(s.st, s.cur, s.errors)

\* Cursor::scan_tokens (Cursor::lex in atium.rs)
scan_tokens(cs) == scan_loop(CursorNew(cs), <<>>)

NoScan == [st |-> "None", tokens |-> <<>>, errs |-> <<>>]

(***************************************************************************)
(* parser.rs: Parser.  A parsing function takes the tokens not yet         *)
(* consumed (Parser::iter) and ends "Ok" with an expression, "Err" with a  *)
(* report, or "Panic" when the process aborts; rest is what it leaves of   *)
(* the iterator.                                                           *)
(***************************************************************************)
PRes(st, e, err, rest) == [st |-> st, expr |-> e, err |-> err, rest |-> rest]

POk(e, rest) == PRes("Ok", e, NoError, rest)

PErr(err, rest) == PRes("Err", NoExpr, err, rest)

PPanic(rest) == PRes("Panic", NoExpr, NoError, rest)

NoPRes == PRes("None", NoExpr, NoError, <<>>)

\* Parser::advance: the next token; panic!() when there is none
advance(iter) ==
    IF iter = <<>>
    THEN [st |-> "Panic", tok |-> NoTok, rest |-> iter]
    ELSE [st |-> "Ok", tok |-> Head(iter), rest |-> Tail(iter)]

\* Parser::peer: the next token, not consumed; panic!() when there is none
peer(iter) ==
    IF iter = <<>>
    THEN [st |-> "Panic", tok |-> NoTok, rest |-> iter]
    ELSE [st |-> "Ok", tok |-> Head(iter), rest |-> iter]

\* SyntaxError::ExpectedCharacter(found, expected)
ExpectedCharacter(found, expected) == Error("ExpectedCharacter", <<>>, found, << <<expected>> >>)

RECURSIVE equality(_)
RECURSIVE comparison(_)
RECURSIVE term(_)
RECURSIVE factor(_)
RECURSIVE unary(_)
RECURSIVE primary(_)
RECURSIVE repeat_loop(_, _, _, _)
RECURSIVE repeat_op(_, _, _)
RECURSIVE Call(_, _)
RECURSIVE Parser_expression(_)

\* func(self) for the func handed to repeat_op
Call(func, iter) ==
    CASE func = "comparison" -> comparison(iter)
      [] func = "term"       -> term(iter)
      [] func = "factor"     -> factor(iter)
      [] OTHER               -> unary(iter)

\* the loop of Parser::repeat_op
repeat_loop(func, tt, left, iter) ==
    IF iter = <<>>
    THEN POk(left, iter)
    ELSE IF Head(iter).kind \in tt
         THEN LET operator == advance(iter)
                  right    == Call(func, operator.rest)
              IN  IF right.st # "Ok"
                  THEN right
                  ELSE repeat_loop(func, tt, Binary(left, operator.tok, right.expr), right.rest)
         ELSE POk(left, iter)

\* Parser::repeat_op
repeat_op(func, tt, iter) ==
    LET left == Call(func, iter)
    IN  IF left.st # "Ok" THEN left ELSE repeat_loop(func, tt, left.expr, left.rest)

\* Parser::expression of parser.rs
Parser_expression(iter) == equality(iter)

equality(iter) == repeat_op("comparison", {"EqualEqual", "BangEqual"}, iter)

comparison(iter) == repeat_op("term", {"Greater", "GreaterEqual", "Less", "LessEqual"}, iter)

term(iter) == repeat_op("factor", {"Plus", "Minus"}, iter)

factor(iter) == repeat_op("unary", {"Star", "Slash"}, iter)

\* Parser::unary
unary(iter) ==
    LET next == peer(iter)
    IN  IF next.st = "Panic"
        THEN PPanic(iter)
        ELSE CASE next.tok.kind \in {"Bang", "Minus"} ->
                      LET right == unary(Tail(iter))
                      IN  IF right.st # "Ok" THEN right ELSE POk(Unary(next.tok, right.expr), right.rest)
               [] next.tok.kind = "Plus" ->
                      PErr(Error("Report", <<"'+' cannot be used as a unary operator">>, <<>>, <<>>), iter)
               [] OTHER -> primary(iter)

\* Parser::primary
primary(iter) ==
    LET next == peer(iter)
    IN  IF next.st = "Panic"
        THEN PPanic(iter)
        ELSE CASE next.tok.kind \in {"False", "True", "Nil", "Str", "Number"} ->
                      POk(Literal(next.tok), Tail(iter))
               [] next.tok.kind = "LeftParen" ->
                      LET inner == Parser_expression(Tail(iter))
                          close == advance(inner.rest)
                      IN  IF inner.st # "Ok"
                          THEN inner
                          ELSE IF close.st = "Panic"
                               THEN PPanic(inner.rest)
                               ELSE IF close.tok.kind = "RightParen"
                                    THEN POk(Grouping(inner.expr), close.rest)
                                    ELSE PErr(ExpectedCharacter(close.tok.lex, ")"), close.rest)
               [] OTHER -> PErr(Error("NoExpression", <<>>, <<>>, <<>>), iter)

\* an element of the statements vector of Parser::parse: Ok(stmt) or Err(report)
StmtOk(stmt) == [ok |-> TRUE, stmt |-> stmt, err |-> NoError]

StmtErr(err) == [ok |-> FALSE, stmt |-> NoStmt, err |-> err]

\* what Parser::parse returns for the statements vector it has built
ParseRes(statements, rest) ==
    LET bad == {i \in 1..Len(statements) : ~statements[i].ok}
    IN  IF bad # {}
        THEN [st |-> "Err", stmts |-> <<>>,
              errs |-> [i \in 1..Cardinality(bad) |->
                           statements[CHOOSE j \in bad :
                                          Cardinality({k \in bad : k <= j}) = i].err],
              rest |-> rest]
        ELSE [st |-> "Ok", stmts |-> [i \in 1..Len(statements) |-> statements[i].stmt],
              errs |-> <<>>, rest |-> rest]

RECURSIVE parse_loop(_, _)
\* the while loop of Parser::parse and the return that follows it
parse_loop(iter, statements) ==
    IF iter = <<>>
    THEN ParseRes(statements, iter)
    ELSE IF Head(iter).kind = "Print"
         THEN LET print == Parser_expression(Tail(iter))
              IN  CASE print.st = "Panic" ->
                           [st |-> "Panic", stmts |-> <<>>, errs |-> <<>>, rest |-> print.rest]
                    [] print.st = "Err" ->
                           ParseRes(Append(statements, StmtErr(print.err)), print.rest)
                    [] print.rest = <<>> ->
                           ParseRes(Append(statements,
                                           StmtErr(ExpectedCharacter(<<"E", "O", "F">>, ";"))),
                                    print.rest)
                    [] OTHER ->
                           LET semi == Head(print.rest)
                               pushed == IF semi.kind # "Semicolon"
                                         THEN Append(statements,
                                                     StmtErr(ExpectedCharacter(semi.lex, ";")))
                                         ELSE statements
                           IN  parse_loop(Tail(print.rest),
                                          Append(pushed, StmtOk(StmtPrint(print.expr))))
         ELSE LET parsed_expr == Parser_expression(Tail(iter))
              IN  IF parsed_expr.st = "Panic"
                  THEN [st |-> "Panic", stmts |-> <<>>, errs |-> <<>>, rest |-> parsed_expr.rest]
                  ELSE parse_loop(parsed_expr.rest,
                                  Append(statements,
                                         IF parsed_expr.st = "Ok"
                                         THEN StmtOk(StmtExpr(parsed_expr.expr))
                                         ELSE StmtErr(parsed_expr.err)))

\* Parser::parse
parse(tokens) == parse_loop(tokens, <<>>)

NoParse == [st |-> "None", stmts |-> <<>>, errs |-> <<>>, rest |-> <<>>]

RECURSIVE SkipToStatement(_)
\* the for loop of Parser::sync: tokens are consumed up to and including the
\* first one that begins a statement
SkipToStatement(iter) ==
    IF iter = <<>>
    THEN iter
    ELSE IF Head(iter).kind \in {"Class", "Fun", "Var", "For", "If", "While", "Print", "Return"}
         THEN Tail(iter)
         ELSE SkipToStatement(Tail(iter))

\* Parser::sync: some is FALSE for None.  No function calls it.
sync(iter, prev) ==
    IF iter = <<>>
    THEN [some |-> FALSE, rest |-> iter]
    ELSE IF prev = "Semicolon"
         THEN [some |-> TRUE, rest |-> Tail(iter)]
         ELSE [some |-> TRUE, rest |-> SkipToStatement(Tail(iter))]

\* no call of Parser::sync has been made
NoSync == [called |-> FALSE, prev |-> "", some |-> FALSE, rest |-> <<>>]

(***************************************************************************)
(* parser/expr.rs: the binding-power expression parser.                    *)
(***************************************************************************)
\* mutant of infix_bp: the multiplicative operators bind as the additive ones
infix_bpFlat(op) ==
    CASE op = "Equal"              -> [some |-> TRUE, l |-> 2, r |-> 1]
      [] op = "EqualEqual"         -> [some |-> TRUE, l |-> 4, r |-> 3]
      [] op \in {"Plus", "Minus", "Star", "Slash"} -> [some |-> TRUE, l |-> 5, r |-> 6]
      [] OTHER                     -> [some |-> FALSE, l |-> 0, r |-> 0]

\* infix_bp: some is FALSE for None
infix_bp(op) ==
    CASE op = "Equal"              -> [some |-> TRUE, l |-> 2, r |-> 1]
      [] op = "EqualEqual"         -> [some |-> TRUE, l |-> 4, r |-> 3]
      [] op \in {"Plus", "Minus"}  -> [some |-> TRUE, l |-> 5, r |-> 6]
      [] op \in {"Star", "Slash"}  -> [some |-> TRUE, l |-> 7, r |-> 8]
      [] OTHER                     -> [some |-> FALSE, l |-> 0, r |-> 0]

\* prefix_bp, for Minus and Bang
prefix_bp(op) == CASE op \in {"Minus", "Bang"} -> 7

\* mutant of EqualArm: any left operand is taken as the target
EqualArmAny(left, right, rest) == POk(Assignment(left.tok, right), rest)

\* the TokenKind::Equal arm of `left = match op.kind` in Parser::expr
EqualArm(left, right, rest) ==
    IF left.tag = "Variable"
    THEN POk(Assignment(left.tok, right), rest)
    ELSE PErr(Error("InvalidAssignmentTarget", <<>>, <<>>, <<>>), rest)

RECURSIVE expr(_, _)
RECURSIVE expr_loop(_, _, _)

\* Parser::expr
expr(iter, min_bp) ==
    LET first == peer(iter)
        kind  == first.tok.kind
        left  ==
            CASE first.st = "Panic" -> PPanic(iter)
              [] kind \in {"Number", "String", "True", "False"} ->
                     POk(Literal(first.tok), Tail(iter))
              [] kind = "Identifier" -> POk(Variable(first.tok), Tail(iter))
              [] kind = "LeftParen" ->
                     LET inner == expr(Tail(iter), 0)
                         close == peer(inner.rest)
                     IN  IF inner.st # "Ok"
                         THEN inner
                         ELSE IF close.st = "Panic"
                              THEN PPanic(inner.rest)
                              ELSE IF close.tok.kind # "RightParen"
                                   THEN PErr(ExpectedCharacter(close.tok.lex, ")"),
                                             Tail(inner.rest))
                                   ELSE POk(Grouping(inner.expr), Tail(inner.rest))
              [] kind \in {"Minus", "Bang"} ->
                     LET right == expr(Tail(iter), prefix_bp(kind))
                     IN  IF right.st # "Ok"
                         THEN right
                         ELSE POk(Unary(first.tok, right.expr), right.rest)
              [] OTHER -> PPanic(iter)
    IN  IF left.st # "Ok" THEN left ELSE expr_loop(left.expr, left.rest, min_bp)

\* the while loop of Parser::expr
expr_loop(left, iter, min_bp) ==
    IF iter = <<>>
    THEN POk(left, iter)
    ELSE LET op == Head(iter)
             bp == infix_bp(op.kind)
         IN  IF ~bp.some \/ bp.l < min_bp
             THEN POk(left, iter)
             ELSE LET right == expr(Tail(iter), bp.r)
                  IN  IF right.st # "Ok"
                      THEN right
                      ELSE IF op.kind = "Equal"
                           THEN LET new == EqualArm(left, right.expr, right.rest)
                                IN  IF new.st # "Ok"
                                    THEN new
                                    ELSE expr_loop(new.expr, new.rest, min_bp)
                           ELSE expr_loop(Binary(left, op, right.expr), right.rest, min_bp)

\* Parser::expression of parser/expr.rs
Pratt_expression(iter) == expr(iter, 0)

(***************************************************************************)
(* The programs the interpreter is run on, statement by statement, the     *)
(* k-th statement written on source line k.  Two names, two integer        *)
(* literals; a block statement is entered by BlockEnter and left by        *)
(* BlockExit.                                                              *)
(***************************************************************************)
Names == {<<"x">>, <<"y">>}

Ident(n, line) == Token("Identifier", n, NoValue, line)

Number(n, line) == Token("Number", Digits(n), Integer(n), line)

LitExprs(line) == {Literal(Number(n, line)) : n \in {1, 2}}

\* var n;   var n = v;   n = v;   print n;
Stmts(line) ==
    {StmtVar(Ident(n, line), NoExpr) : n \in Names}
    \cup {StmtVar(Ident(n, line), v) : n \in Names, v \in LitExprs(line)}
    \cup {StmtExpr(Assignment(Ident(n, line), v)) : n \in Names, v \in LitExprs(line)}
    \cup {StmtPrint(Variable(Ident(n, line))) : n \in Names}

\* the name token a statement defines, assigns or reads
Subject(stmt) == IF stmt.tag = "Var" THEN stmt.name ELSE stmt.expr.tok

\* the scopes of a chain that bind a token's name, 1 the current scope
Binders(e, tok) == {i \in 1..Len(e) : \E k \in DOMAIN e[i] : k.kind = tok.kind /\ k.lex = tok.lex}

\* the nearest scope that binds it, 0 if none does
Nearest(e, tok) ==
    IF Binders(e, tok) = {} THEN 0
    ELSE CHOOSE i \in Binders(e, tok) : \A j \in Binders(e, tok) : i <= j

\* last: the statement, the outcome of its expression, the nearest scope that
\* bound the statement's name before the step and, for a block exit, the
\* names that the discarded scope had declared
Last(stmt, r, e) ==
    [stmt |-> stmt, st |-> r.st, val |-> r.val, err |-> r.err,
     where |-> Nearest(e, Subject(stmt)),
     dropped |-> IF stmt.tag = "BlockExit" THEN {k.lex : k \in DOMAIN e[1]} ELSE {}]

NoLast == Last(NoStmt, Ok(NoValue, EnvNew), EnvNew)

BlockMark(tag) == [tag |-> tag, name |-> NoTok, expr |-> NoExpr]

\* Interpreter::new, before interpret runs
Init ==
    /\ env = EnvNew
    /\ saved = <<>>
    /\ out = <<>>
    /\ errs = <<>>
    /\ status = "running"
    /\ result = "none"
    /\ nsteps = 0
    /\ last = NoLast
    /\ src = <<>>
    /\ lexed = NoScan
    /\ token_stream = <<>>
    /\ parsed = NoParse
    /\ pratt = NoPRes
    /\ descent = NoPRes
    /\ stage = "Interpreting"
    /\ program = <<>>
    /\ cursor = CursorNew(<<>>)
    /\ scan_errors = <<>>
    /\ recovered = NoSync

\* mutant of Execute: a statement that returns a report ends the run
ExecuteFatal(stmt) ==
    /\ status = "running"
    /\ LET r == execute(stmt, env)
       IN  /\ env' = r.env
           /\ out' = out \o Printed(stmt, r)
           /\ errs' = IF r.st = "Err" THEN Append(errs, r.err) ELSE errs
           /\ status' = IF r.st \in {"Panic", "Err"} THEN "panicked" ELSE status
           /\ last' = Last(stmt, r, env)
    /\ nsteps' = nsteps + 1
    /\ UNCHANGED <<saved, result>>

\* execute(stmt) of one Expr, Print or Var statement, at the top level or in a block
Execute(stmt) ==
    /\ status = "running"
    /\ LET r == execute(stmt, env)
       IN  /\ env' = r.env
           /\ out' = out \o Printed(stmt, r)
           /\ errs' = IF r.st = "Err" THEN Append(errs, r.err) ELSE errs
           /\ status' = IF r.st = "Panic" THEN "panicked" ELSE status
           /\ last' = Last(stmt, r, env)
    /\ nsteps' = nsteps + 1
    /\ UNCHANGED <<saved, result>>

\* execute_block, entry: prev_env = self.env.replace(new_env); set_parent(prev_env.clone())
BlockEnter ==
    /\ status = "running"
    /\ nsteps < MaxStmts
    /\ saved' = <<env>> \o saved
    /\ env' = set_parent(EnvNew, env)
    /\ last' = Last(BlockMark("BlockEnter"), Ok(NoValue, EnvNew), EnvNew)
    /\ nsteps' = nsteps + 1
    /\ UNCHANGED <<out, errs, status, result>>
    /\ UNCHANGED pipe

\* mutant of BlockRestore: the block's environment stays current
BlockRestoreSkip(cur, prev_env) == cur

\* the environment execute_block leaves current when the inner statements are done
BlockRestore(cur, prev_env) == prev_env

\* mutant of BlockExit: the block's environment stays current when a report
\* has been collected
BlockExitOnSuccess ==
    /\ status = "running"
    /\ saved # <<>>
    /\ env' = IF errs = <<>> THEN BlockRestore(env, Head(saved)) ELSE env
    /\ saved' = Tail(saved)
    /\ last' = Last(BlockMark("BlockExit"), Ok(NoValue, EnvNew), env)
    /\ UNCHANGED <<out, errs, status, result, nsteps>>
    /\ UNCHANGED pipe

\* execute_block, exit: self.env.replace(prev_env)
BlockExit ==
    /\ status = "running"
    /\ saved # <<>>
    /\ env' = BlockRestore(env, Head(saved))
    /\ saved' = Tail(saved)
    /\ last' = Last(BlockMark("BlockExit"), Ok(NoValue, EnvNew), env)
    /\ UNCHANGED <<out, errs, status, result, nsteps>>
    /\ UNCHANGED pipe

\* Interpreter::interpret returns: Ok(()) if no report was collected, else Err(errors)
Finish ==
    /\ status = "running"
    /\ saved = <<>>
    /\ status' = "done"
    /\ result' = IF errs = <<>> THEN "Ok" ELSE "Err"
    /\ last' = NoLast
    /\ UNCHANGED <<env, saved, out, errs, nsteps>>

Next ==
    \/ \E stmt \in Stmts(nsteps + 1) : nsteps < MaxStmts /\ Execute(stmt) /\ UNCHANGED pipe
    \/ BlockEnter
    \/ BlockExit
    \/ Finish /\ UNCHANGED pipe

Spec == Init /\ [][Next]_vars

(***************************************************************************)
(* atium.rs and cli.rs: the run  atium.lex()?.parse()?.interpret()?  of    *)
(* one source text.                                                        *)
(***************************************************************************)
\* mutant of Gate: a stage that returned reports hands over to the next one
GateOpen(st, next) ==
    CASE st \in {"Ok", "Err"} -> next
      [] OTHER                -> "Aborted"

\* the stage that follows one that ended st: Result::map builds the next
\* stage's Atium from an Ok only, and ? makes run return an Err at once
Gate(st, next) ==
    CASE st = "Ok"  -> next
      [] st = "Err" -> "Done"
      [] OTHER      -> "Aborted"

\* the pieces source texts are made of
Chunks ==
    {<<"p", "r", "i", "n", "t", " ">>, <<"1">>, <<"+">>, <<"!">>, <<"/">>, <<";">>, <<"@">>}

RECURSIVE Concat(_)
Concat(ss) == IF ss = <<>> THEN <<>> ELSE Head(ss) \o Concat(Tail(ss))

Sources == {Concat(ss) : ss \in UNION {[1..n -> Chunks] : n \in 0..MaxChunks}}

\* the tokens token streams are made of
Toks ==
    {Token("Print", <<"p", "r", "i", "n", "t">>, NoValue, 0),
     Number(1, 0),
     Ident(<<"x">>, 0),
     Token("Plus", <<"+">>, NoValue, 0),
     Token("Minus", <<"-">>, NoValue, 0),
     Token("Equal", <<"=">>, NoValue, 0),
     Token("LeftParen", <<"(">>, NoValue, 0),
     Token("RightParen", <<")">>, NoValue, 0),
     Token("Semicolon", <<";">>, NoValue, 0)}

TokenStreams == UNION {[1..n -> Toks] : n \in 0..MaxToks}

\* Atium::new(src): nothing has run
InitRun ==
    /\ env = EnvNew
    /\ saved = <<>>
    /\ out = <<>>
    /\ errs = <<>>
    /\ status = "idle"
    /\ result = "none"
    /\ nsteps = 0
    /\ last = NoLast
    /\ src \in Sources
    /\ lexed = NoScan
    /\ token_stream = <<>>
    /\ parsed = NoParse
    /\ pratt = NoPRes
    /\ descent = NoPRes
    /\ stage = "Lexing"
    /\ program = <<>>
    /\ cursor = CursorNew(src)
    /\ scan_errors = <<>>
    /\ recovered = NoSync

\* Parser::new(token_stream): a parser over a token stream
InitParse ==
    /\ env = EnvNew
    /\ saved = <<>>
    /\ out = <<>>
    /\ errs = <<>>
    /\ status = "idle"
    /\ result = "none"
    /\ nsteps = 0
    /\ last = NoLast
    /\ src = <<>>
    /\ lexed = NoScan
    /\ token_stream \in TokenStreams
    /\ parsed = NoParse
    /\ pratt = NoPRes
    /\ descent = NoPRes
    /\ stage = "Parsing"
    /\ program = <<>>
    /\ cursor = CursorNew(<<>>)
    /\ scan_errors = <<>>
    /\ recovered = NoSync

\* Atium::lex, and the ? on its result
Lex ==
    /\ stage = "Lexing"
    /\ lexed' = scan_tokens(src)
    /\ stage' = Gate(lexed'.st, "Parsing")
    /\ token_stream' = IF stage' = "Parsing" THEN lexed'.tokens ELSE token_stream
    /\ result' = IF lexed'.st = "Err" THEN "Err" ELSE result
    /\ errs' = IF lexed'.st = "Err" THEN lexed'.errs ELSE errs
    /\ cursor' = CursorNew(<<>>)
    /\ UNCHANGED <<env, saved, out, status, nsteps, last, src, parsed, pratt, descent, program, scan_errors, recovered>>

\* Atium::parse, and the ? on its result
Parse ==
    /\ stage = "Parsing"
    /\ parsed' = parse(token_stream)
    /\ stage' = Gate(parsed'.st, "Interpreting")
    /\ program' = IF stage' = "Interpreting" THEN parsed'.stmts ELSE program
    /\ status' = IF stage' = "Interpreting" THEN "running" ELSE status
    /\ result' = IF parsed'.st = "Err" THEN "Err" ELSE result
    /\ errs' = IF parsed'.st = "Err" THEN parsed'.errs ELSE errs
    /\ UNCHANGED <<env, saved, out, nsteps, last, src, lexed, token_stream, pratt, descent, cursor, scan_errors, recovered>>

\* Parser::expression of parser/expr.rs on the token stream
Expression ==
    /\ pratt = NoPRes
    /\ pratt' = Pratt_expression(token_stream)
    /\ UNCHANGED interp
    /\ UNCHANGED <<src, lexed, token_stream, parsed, descent, stage, program, cursor,
                   scan_errors, recovered>>

\* Atium::interpret, one turn of the iteration over Interpreter::stmts
RunStatement ==
    /\ stage = "Interpreting"
    /\ program # <<>>
    /\ Execute(Head(program))
    /\ program' = Tail(program)
    /\ stage' = IF status' = "panicked" THEN "Aborted" ELSE stage
    /\ UNCHANGED <<src, lexed, token_stream, parsed, pratt, descent, cursor, scan_errors, recovered>>

\* Atium::interpret returns, and with it run
RunFinish ==
    /\ stage = "Interpreting"
    /\ program = <<>>
    /\ Finish
    /\ stage' = "Done"
    /\ UNCHANGED <<src, lexed, token_stream, parsed, pratt, descent, program, cursor, scan_errors, recovered>>

NextParse ==
    \/ Parse
    \/ Expression

SpecParse == InitParse /\ [][NextParse]_vars

NextRun ==
    \/ Lex
    \/ Parse
    \/ RunStatement
    \/ RunFinish

SpecRun == InitRun /\ [][NextRun]_vars

(***************************************************************************)
(* The two expression parsers, each on the tokens of one expression.       *)
(***************************************************************************)
\* a token of one character
Tok(kind, chr) == Token(kind, <<chr>>, NoValue, 0)

Operands == {Number(1, 0), Ident(<<"x">>, 0)}

InfixToks ==
    {Tok("Plus", "+"), Tok("Minus", "-"), Tok("Star", "*"), Tok("Slash", "/"), Tok("Equal", "="),
     Token("EqualEqual", <<"=", "=">>, NoValue, 0)}

PrefixToks == {Tok("Minus", "-"), Tok("Bang", "!")}

\* the pieces expressions are made of:  a   nil   op a   - or !   ( a   op a )
Pieces ==
    {<<a>> : a \in Operands}
    \cup {<<Token("Nil", <<"n", "i", "l">>, NoValue, 0)>>}
    \cup {<<op, a>> : op \in InfixToks, a \in Operands}
    \cup {<<op>> : op \in PrefixToks}
    \cup {<<Tok("LeftParen", "("), a>> : a \in Operands}
    \cup {<<op, a, Tok("RightParen", ")")>> : op \in {Tok("Plus", "+"), Tok("Star", "*")},
                                               a \in Operands}

ExprStreams == {Concat(ps) : ps \in UNION {[1..n -> Pieces] : n \in 0..MaxPieces}}

\* Parser::new(token_stream): a parser over the tokens of an expression
InitExpr ==
    /\ env = EnvNew
    /\ saved = <<>>
    /\ out = <<>>
    /\ errs = <<>>
    /\ status = "idle"
    /\ result = "none"
    /\ nsteps = 0
    /\ last = NoLast
    /\ src = <<>>
    /\ lexed = NoScan
    /\ token_stream \in ExprStreams
    /\ parsed = NoParse
    /\ pratt = NoPRes
    /\ descent = NoPRes
    /\ stage = "Parsing"
    /\ program = <<>>
    /\ cursor = CursorNew(<<>>)
    /\ scan_errors = <<>>
    /\ recovered = NoSync

\* Parser::expression of parser.rs on the token stream
Descend ==
    /\ descent = NoPRes
    /\ descent' = Parser_expression(token_stream)
    /\ UNCHANGED interp
    /\ UNCHANGED <<src, lexed, token_stream, parsed, pratt, stage, program, cursor, scan_errors, recovered>>

NextExpr ==
    \/ Expression
    \/ Descend

SpecExpr == InitExpr /\ [][NextExpr]_vars

(***************************************************************************)
(* Parser::sync on the tokens a failed statement has left in the iterator. *)
(***************************************************************************)
SyncToks ==
    {Token("Print", <<"p", "r", "i", "n", "t">>, NoValue, 0),
     Token("Var", <<"v", "a", "r">>, NoValue, 0),
     Number(1, 0),
     Ident(<<"x">>, 0),
     Token("Semicolon", <<";">>, NoValue, 0)}

SyncStreams == UNION {[1..n -> SyncToks] : n \in 0..MaxToks}

\* the token types handed to sync as prev
SyncPrevs == {"Semicolon", "Number", "Print"}

\* Parser::new(token_stream), the parser about to recover
InitSync ==
    /\ env = EnvNew
    /\ saved = <<>>
    /\ out = <<>>
    /\ errs = <<>>
    /\ status = "idle"
    /\ result = "none"
    /\ nsteps = 0
    /\ last = NoLast
    /\ src = <<>>
    /\ lexed = NoScan
    /\ token_stream \in SyncStreams
    /\ parsed = NoParse
    /\ pratt = NoPRes
    /\ descent = NoPRes
    /\ stage = "Parsing"
    /\ program = <<>>
    /\ cursor = CursorNew(<<>>)
    /\ scan_errors = <<>>
    /\ recovered = NoSync

\* Parser::sync(prev) on the iterator
Sync ==
    /\ ~recovered.called
    /\ \E prev \in SyncPrevs :
           LET s == sync(token_stream, prev)
           IN  recovered' = [called |-> TRUE, prev |-> prev, some |-> s.some, rest |-> s.rest]
    /\ UNCHANGED interp
    /\ UNCHANGED <<src, lexed, token_stream, parsed, pratt, descent, stage, program, cursor,
                   scan_errors>>

NextSync == Sync

SpecSync == InitSync /\ [][NextSync]_vars

(***************************************************************************)
(* The interpreter on the statements of one program, as the parser hands   *)
(* them over.                                                              *)
(***************************************************************************)
\* the literal tokens of `1`, `"a"`, `true` and `1.5`, as the lexer builds them
LeftLits ==
    {Number(1, 0),
     Token("Str", <<"\"", "a", "\"">>, String(<<"a">>), 0),
     Token("True", <<"t", "r", "u", "e">>, Boolean(TRUE), 0),
     Token("Number", <<"1", ".", "5">>, Float(<<"1", ".", "5">>), 0)}

\* the literal tokens of `2`, `"b"`, `true` and `1.5`
RightLits ==
    {Number(2, 0),
     Token("Str", <<"\"", "b", "\"">>, String(<<"b">>), 0),
     Token("True", <<"t", "r", "u", "e">>, Boolean(TRUE), 0),
     Token("Number", <<"1", ".", "5">>, Float(<<"1", ".", "5">>), 0)}

\* print l + r;   print 1 / 0;   print 1 / 2;   print nil;   var x = 1;   print x;
EvalStmts ==
    {StmtPrint(Binary(Literal(l), Tok("Plus", "+"), Literal(r))) : l \in LeftLits, r \in RightLits}
    \cup {StmtPrint(Binary(Literal(Number(1, 0)), Tok("Slash", "/"), Literal(Number(n, 0)))) :
              n \in {0, 2}}
    \cup {StmtPrint(Literal(Token("Nil", <<"n", "i", "l">>, NoValue, 0))),
          StmtVar(Ident(<<"x">>, 0), Literal(Number(1, 0))),
          StmtPrint(Variable(Ident(<<"x">>, 0)))}

Programs == UNION {[1..n -> EvalStmts] : n \in 0..MaxProg}

\* Interpreter::new(stmts), interpret entered: parse has returned Ok(stmts)
InitEval ==
    /\ env = EnvNew
    /\ saved = <<>>
    /\ out = <<>>
    /\ errs = <<>>
    /\ status = "running"
    /\ result = "none"
    /\ nsteps = 0
    /\ last = NoLast
    /\ src = <<>>
    /\ lexed = NoScan
    /\ token_stream = <<>>
    /\ program \in Programs
    /\ parsed = [st |-> "Ok", stmts |-> program, errs |-> <<>>, rest |-> <<>>]
    /\ pratt = NoPRes
    /\ descent = NoPRes
    /\ stage = "Interpreting"
    /\ cursor = CursorNew(<<>>)
    /\ scan_errors = <<>>
    /\ recovered = NoSync

NextEval ==
    \/ RunStatement
    \/ RunFinish

SpecEval == InitEval /\ [][NextEval]_vars

(***************************************************************************)
(* The interpreter on programs whose statements define, assign and read    *)
(* one variable.                                                           *)
(***************************************************************************)
VarX == Ident(<<"x">>, 0)

Lit(n) == Literal(Number(n, 0))

\* 1 + true, an expression that fails
Failing == Binary(Lit(1), Tok("Plus", "+"), Literal(Token("True", <<"t", "r", "u", "e">>, Boolean(TRUE), 0)))

\* (x = 2) + true, an expression that assigns and then fails
AssignThenFail ==
    Binary(Grouping(Assignment(VarX, Lit(2))), Tok("Plus", "+"),
           Literal(Token("True", <<"t", "r", "u", "e">>, Boolean(TRUE), 0)))

\* var x = 1;   var x;   var x = 1 + true;   var x = (x = 2) + true;   x = 2;
\* x = x + 1;   x = x = 2;   print x;   print (x = 2) + x;
\* print (1 + true) + (x = 2);
SideStmts ==
    {StmtVar(VarX, Lit(1)),
     StmtVar(VarX, NoExpr),
     StmtVar(VarX, Failing),
     StmtVar(VarX, AssignThenFail),
     StmtExpr(Assignment(VarX, Lit(2))),
     StmtExpr(Assignment(VarX, Binary(Variable(VarX), Tok("Plus", "+"), Lit(1)))),
     StmtExpr(Assignment(VarX, Assignment(VarX, Lit(2)))),
     StmtPrint(Variable(VarX)),
     StmtPrint(Binary(Grouping(Assignment(VarX, Lit(2))), Tok("Plus", "+"), Variable(VarX))),
     StmtPrint(Binary(Grouping(Failing), Tok("Plus", "+"), Grouping(Assignment(VarX, Lit(2)))))}

SidePrograms == UNION {[1..n -> SideStmts] : n \in 0..MaxProg}

\* Interpreter::new(stmts), interpret entered
InitSide ==
    /\ env = EnvNew
    /\ saved = <<>>
    /\ out = <<>>
    /\ errs = <<>>
    /\ status = "running"
    /\ result = "none"
    /\ nsteps = 0
    /\ last = NoLast
    /\ src = <<>>
    /\ lexed = NoScan
    /\ token_stream = <<>>
    /\ program \in SidePrograms
    /\ parsed = [st |-> "Ok", stmts |-> program, errs |-> <<>>, rest |-> <<>>]
    /\ pratt = NoPRes
    /\ descent = NoPRes
    /\ stage = "Interpreting"
    /\ cursor = CursorNew(<<>>)
    /\ scan_errors = <<>>
    /\ recovered = NoSync

SpecSide == InitSide /\ [][NextEval]_vars

(***************************************************************************)
(* The scan of one source text, turn by turn of the loop of scan_tokens.   *)
(***************************************************************************)
\* the characters the scanned source texts are made of
LexChars == {"@", "#", "\"", "!", "=", "<", ">", " ", "1", "a", "/", "\n", ".", "0"}

LexSources == UNION {[1..n -> LexChars] : n \in 0..MaxChars}

\* Cursor::new(src), scan_tokens entered
InitLex ==
    /\ env = EnvNew
    /\ saved = <<>>
    /\ out = <<>>
    /\ errs = <<>>
    /\ status = "idle"
    /\ result = "none"
    /\ nsteps = 0
    /\ last = NoLast
    /\ src \in LexSources
    /\ lexed = NoScan
    /\ token_stream = <<>>
    /\ parsed = NoParse
    /\ pratt = NoPRes
    /\ descent = NoPRes
    /\ stage = "Lexing"
    /\ program = <<>>
    /\ cursor = CursorNew(src)
    /\ scan_errors = <<>>
    /\ recovered = NoSync

\* one turn of the loop of scan_tokens: the arm of the next character
ScanStep ==
    /\ stage = "Lexing"
    /\ cursor.iter # <<>>
    /\ LET s == scan_step(cursor, scan_errors)
       IN  /\ cursor' = s.cur
           /\ scan_errors' = s.errors
           /\ lexed' = IF s.st = "Go" THEN lexed ELSE ScanRes(s.st, s.cur, s.errors)
           /\ stage' = IF s.st = "Go" THEN stage ELSE Gate(s.st, "Parsing")
    /\ UNCHANGED interp
    /\ UNCHANGED <<src, token_stream, parsed, pratt, descent, program, recovered>>

\* the iterator is exhausted: scan_tokens returns, and Atium::lex with it
ScanReturn ==
    /\ stage = "Lexing"
    /\ cursor.iter = <<>>
    /\ lexed' = ScanRes(IF scan_errors = <<>> THEN "Ok" ELSE "Err", cursor, scan_errors)
    /\ stage' = Gate(lexed'.st, "Parsing")
    /\ token_stream' = IF stage' = "Parsing" THEN lexed'.tokens ELSE token_stream
    /\ result' = IF lexed'.st = "Err" THEN "Err" ELSE result
    /\ errs' = IF lexed'.st = "Err" THEN lexed'.errs ELSE errs
    /\ UNCHANGED <<env, saved, out, status, nsteps, last, src, parsed, pratt, descent, program,
                   cursor, scan_errors, recovered>>

NextLex ==
    \/ ScanStep
    \/ ScanReturn

SpecLex == InitLex /\ [][NextLex]_vars

(***************************************************************************)
(* Properties of the environment and of block scoping, checked on Spec.    *)
(***************************************************************************)
\* the binding of a token's name in a scope that binds it
ValueAt(scope, tok) == scope[CHOOSE k \in DOMAIN scope : k.kind = tok.kind /\ k.lex = tok.lex]

\* the names a scope binds
ScopeNames(scope) == {k.lex : k \in DOMAIN scope}

\* the names each scope of a chain binds
ChainNames(e) == [i \in 1..Len(e) |-> ScopeNames(e[i])]

X == Ident(<<"x">>, 0)

IsAssign(l) == l.stmt.tag = "Expr" /\ l.stmt.expr.tag = "Assignment"

\* C1: an assignment made inside a block to a variable of an enclosing scope
\* survives the block: every name that the block itself does not declare
\* reads the same right after the block's exit as right before it (so that
\* `var x = 1; { x = 2; } print x;` prints 2).
C1_AssignmentPropagates ==
    [][last'.stmt.tag = "BlockExit" =>
          \A n \in Names :
              Nearest(env, Ident(n, 0)) # 1 =>
                  get(env', Ident(n, 0)) = get(env, Ident(n, 0))]_vars

\* C2: a var statement changes the current scope only and a read after it
\* sees the new binding; inside a block the enclosing scopes bind the names
\* they bound when the block was entered, and a block's exit leaves each
\* scope binding exactly those names.
C2_ShadowingDoesNotLeak ==
    [][/\ (last'.stmt.tag = "Var" /\ last'.st = "Ok") =>
              /\ Tail(env') = Tail(env)
              /\ saved' = saved
              /\ get(env', last'.stmt.name) = [found |-> TRUE, val |-> last'.val]
       /\ saved' # <<>> => ChainNames(Tail(env')) = ChainNames(Head(saved'))
       /\ last'.stmt.tag = "BlockExit" =>
              /\ Len(env') = Len(env) - 1
              /\ ChainNames(env') = ChainNames(Tail(env))]_vars

\* `var x = 1; { var x = 2; print x; }` has printed 2 and left the block,
\* which had declared x, and x reads 1 again
C2_Witness ==
    /\ last.stmt.tag = "BlockExit"
    /\ <<"x">> \in last.dropped
    /\ out = << <<"2">> >>
    /\ get(env, X) = [found |-> TRUE, val |-> Integer(1)]

\* C4: a read of a variable (print n) fails with InvalidIdent when no scope
\* of the chain binds the name, fails with UninitialisedVar and prints
\* nothing when the nearest binding holds no value, and otherwise yields and
\* prints the value of the nearest binding.
C4_ReadOutcomes ==
    [][last'.stmt.tag = "Print" =>
          LET tok == last'.stmt.expr.tok
              i   == Nearest(env, tok)
          IN  IF i = 0
              THEN /\ last'.st = "Err" /\ last'.err.kind = "InvalidIdent"
                   /\ out' = out /\ errs' = Append(errs, last'.err)
              ELSE IF ValueAt(env[i], tok) = NoValue
                   THEN /\ last'.st = "Err" /\ last'.err.kind = "UninitialisedVar"
                        /\ out' = out /\ errs' = Append(errs, last'.err)
                   ELSE /\ last'.st = "Ok" /\ last'.val = ValueAt(env[i], tok)
                        /\ out' = Append(out, Display(ValueAt(env[i], tok)))
                        /\ errs' = errs]_vars

\* `var x = 1; { var x; print x; }`: the nearest binding is uninitialised, a
\* farther one holds 1, and the read has failed without printing
C4_Witness ==
    /\ last.stmt.tag = "Print"
    /\ last.err.kind = "UninitialisedVar"
    /\ last.where = 1
    /\ Len(env) = 2
    /\ get(Tail(env), last.stmt.expr.tok) = [found |-> TRUE, val |-> Integer(1)]
    /\ out = <<>>

\* C5: an assignment to a name that no scope of the chain binds fails with
\* InvalidAssignmentTarget and changes no scope; a read of the name
\* afterwards still fails with InvalidIdent.
C5_AssignIsNotDeclaration ==
    [][(IsAssign(last') /\ Nearest(env, last'.stmt.expr.tok) = 0) =>
          /\ last'.st = "Err"
          /\ last'.err.kind = "InvalidAssignmentTarget"
          /\ env' = env
          /\ get_var(env', last'.stmt.expr.tok, FALSE).err.kind = "InvalidIdent"]_vars

\* inside a block that declares y, `x = 2` has failed: x is bound nowhere
C5_Witness ==
    /\ IsAssign(last)
    /\ last.err.kind = "InvalidAssignmentTarget"
    /\ last.where = 0
    /\ Len(env) = 2
    /\ ScopeNames(env[1]) = {<<"y">>}
    /\ Binders(env, last.stmt.expr.tok) = {}

\* C6: an assignment to a name that the chain binds overwrites the binding
\* in the nearest scope that binds it and nothing else: the nearer scopes,
\* the farther scopes (a farther binding of the same name included) and
\* the other names of that scope are unchanged, and the value assigned is
\* returned.
C6_AssignNearestOnly ==
    [][(IsAssign(last') /\ Nearest(env, last'.stmt.expr.tok) # 0) =>
          LET tok == last'.stmt.expr.tok
              v   == last'.stmt.expr.args[1].tok.literal
              i   == Nearest(env, tok)
          IN  /\ last'.st = "Ok"
              /\ last'.val = v
              /\ Len(env') = Len(env)
              /\ \A j \in 1..Len(env) : j # i => env'[j] = env[j]
              /\ DOMAIN env'[i] = DOMAIN env[i]
              /\ \A k \in DOMAIN env[i] :
                     env'[i][k] = IF k.kind = tok.kind /\ k.lex = tok.lex THEN v ELSE env[i][k]]_vars

\* `var x = 1; { var x = 1; { x = 2;`: the nearest binding, one scope up, was
\* overwritten; the current scope gained nothing and the root keeps 1
C6_Witness ==
    /\ IsAssign(last)
    /\ last.st = "Ok"
    /\ last.where = 2
    /\ Len(env) = 3
    /\ Binders(env, X) = {2, 3}
    /\ ValueAt(env[2], X) = Integer(2)
    /\ ValueAt(env[3], X) = Integer(1)

\* C7: a var statement never fails, whether or not the name is already
\* declared in the current scope; afterwards the current scope binds the
\* name once, to the value given (to no value if none was given), its other
\* bindings are unchanged and so is every enclosing scope.
C7_DefineCurrentScopeOnly ==
    [][last'.stmt.tag = "Var" =>
          LET tok == last'.stmt.name
              v   == IF last'.stmt.expr = NoExpr THEN NoValue ELSE last'.stmt.expr.tok.literal
          IN  /\ last'.st = "Ok"
              /\ errs' = errs
              /\ Tail(env') = Tail(env)
              /\ ScopeNames(env'[1]) = ScopeNames(env[1]) \cup {tok.lex}
              /\ Cardinality(DOMAIN env'[1]) = Cardinality(ScopeNames(env'[1]))
              /\ ValueAt(env'[1], tok) = v
              /\ \A k \in DOMAIN env[1] :
                     k.lex # tok.lex => k \in DOMAIN env'[1] /\ env'[1][k] = env[1][k]]_vars

\* in a block whose parent binds x to 1, x was declared with a value and is
\* now declared again, in the same scope, without one
C7_Witness ==
    /\ last.stmt.tag = "Var"
    /\ last.stmt.expr = NoExpr
    /\ last.where = 1
    /\ last.st = "Ok"
    /\ Len(env) = 2
    /\ ValueAt(env[1], last.stmt.name) = NoValue
    /\ get(Tail(env), last.stmt.name) = [found |-> TRUE, val |-> Integer(1)]

C3_StageGating ==
    /\ (stage = "Parsing" \/ parsed # NoParse) => lexed.st = "Ok"
    /\ (stage = "Interpreting" \/ status # "idle" \/ nsteps > 0 \/ out # <<>>) =>
           (lexed.st = "Ok" /\ parsed.st = "Ok")
    /\ lexed.st = "Err" =>
           /\ lexed.errs # <<>>
           /\ stage = "Done" /\ parsed = NoParse
           /\ status = "idle" /\ nsteps = 0 /\ out = <<>>
           /\ result = "Err" /\ errs = lexed.errs
    /\ parsed.st = "Err" =>
           /\ parsed.errs # <<>>
           /\ stage = "Done"
           /\ status = "idle" /\ nsteps = 0 /\ out = <<>>
           /\ result = "Err" /\ errs = parsed.errs

\* `print 1;@`: the lexer had collected a whole print statement when it
\* returned its report; the run is over and nothing was parsed or printed
C3_Witness ==
    /\ lexed.st = "Err"
    /\ [i \in 1..Len(lexed.tokens) |-> lexed.tokens[i].kind] = <<"Print", "Number", "Semicolon">>
    /\ stage = "Done"
    /\ parsed = NoParse
    /\ out = <<>>

(***************************************************************************)
(* Properties of the parser, checked on SpecParse.                         *)
(***************************************************************************)
\* the positions of the `;` tokens of a token stream
Semis(ts) == {i \in 1..Len(ts) : ts[i].kind = "Semicolon"}

\* ts is two statements, each ended by its `;`, and parse returns reports
\* for each of the two when it is given that statement alone
TwoMalformed(ts) ==
    \E i \in Semis(ts) :
        /\ i < Len(ts)
        /\ Semis(ts) = {i, Len(ts)}
        /\ parse(SubSeq(ts, 1, i)).st = "Err"
        /\ parse(SubSeq(ts, i + 1, Len(ts))).st = "Err"

\* C9: parse, given two malformed statements separated by `;`, returns two
\* reports, one for each of them: it goes on to the second statement after
\* the first has failed.
C9_ErrorAggregation ==
    (parsed # NoParse /\ TwoMalformed(token_stream)) =>
        (parsed.st = "Err" /\ Len(parsed.errs) = 2)

\* C10: the parser is total: parse returns Ok(statements) or Err(reports)
\* with at least one report for every token stream, and so does the
\* expression parser; neither aborts, whether the tokens run out in the
\* middle of an expression or an expression starts with `+`.
C10_ParserTotal ==
    /\ parsed # NoParse =>
           /\ parsed.st \in {"Ok", "Err"}
           /\ parsed.st = "Err" => parsed.errs # <<>>
    /\ pratt # NoPRes => pratt.st \in {"Ok", "Err"}

(***************************************************************************)
(* Properties of the lexer, checked on SpecLex.                            *)
(***************************************************************************)
\* the characters a token, a comment or a string can start with
StartsToken ==
    {p[1] : p \in SingleChar} \cup {"!", "=", "<", ">", "/", "\""} \cup AsciiDigits \cup Letters

\* the characters the lexer skips between tokens
Blank == {"\n", "\r", "\t", " "}

\* ss begins with the elements of pre, in their order
IsPrefix(pre, ss) == Len(pre) <= Len(ss) /\ SubSeq(ss, 1, Len(pre)) = pre

\* C11: lexical errors accumulate and do not end the scan: a turn of the
\* loop on a character that starts no token adds exactly one
\* UnexpectedCharacter report for it, consumes that character alone, adds no
\* token, and the scan goes on; no turn drops a report; and when the scan
\* returns, it returns Err with all the reports collected if there is one,
\* and Ok with the tokens only if there is none.
C11_ErrorsAccumulate ==
    [][/\ (stage = "Lexing" /\ cursor.iter # <<>>
            /\ Head(cursor.iter) \notin StartsToken \cup Blank) =>
               /\ scan_errors' = Append(scan_errors,
                                        Error("UnexpectedCharacter", <<Head(cursor.iter)>>,
                                              <<>>, <<>>))
               /\ cursor' = [cursor EXCEPT !.iter = Tail(@)]
               /\ stage' = "Lexing"
               /\ lexed' = NoScan
       /\ IsPrefix(scan_errors, scan_errors')
       /\ (lexed = NoScan /\ lexed'.st \in {"Ok", "Err"}) =>
               /\ lexed'.st = "Err" <=> scan_errors # <<>>
               /\ lexed'.st = "Err" => (lexed'.errs = scan_errors /\ errs' = scan_errors)
               /\ lexed'.st = "Ok" =>
                      (lexed'.tokens = cursor.tokens /\ token_stream' = cursor.tokens)
      ]_vars

\* `@1#`: the scan returned the reports of both `@` and `#`, in that order,
\* and had collected the number between them
C11_Witness ==
    /\ lexed.st = "Err"
    /\ lexed.errs = <<Error("UnexpectedCharacter", <<"@">>, <<>>, <<>>),
                      Error("UnexpectedCharacter", <<"#">>, <<>>, <<>>)>>
    /\ [i \in 1..Len(lexed.tokens) |-> lexed.tokens[i].kind] = <<"Number">>
    /\ errs = lexed.errs

\* C12: a string that is still open when the input ends is one
\* ExpectedCharacter report (expected `"`, found EOF): the turn of the loop
\* that opened it adds that one report, registers what was read of the string
\* as a Str token, leaves nothing to read, and the scan goes on to its
\* return, which is Err.
C12_UnterminatedString ==
    [][(stage = "Lexing" /\ cursor.iter # <<>> /\ Head(cursor.iter) = "\""
        /\ Find(Tail(cursor.iter), "\"") = 0) =>
           /\ scan_errors' = Append(scan_errors,
                                    Error("ExpectedCharacter", <<>>, <<"E", "O", "F">>,
                                          << <<"\"">> >>))
           /\ Len(cursor'.tokens) = Len(cursor.tokens) + 1
           /\ cursor'.tokens[Len(cursor'.tokens)].kind = "Str"
           /\ cursor'.tokens[Len(cursor'.tokens)].literal = String(Tail(cursor.iter))
           /\ cursor'.iter = <<>>
           /\ stage' = "Lexing"
      ]_vars

\* the characters that start a one- or two-character operator, with the
\* kind of the two-character token and of the one-character token
TwoCharOps ==
    {<<"!", "BangEqual", "Bang">>, <<"=", "EqualEqual", "Equal">>,
     <<"<", "LessEqual", "Less">>, <<">", "GreaterEqual", "Greater">>}

\* C13: two-character operators are recognised greedily: the turn of the
\* loop on `!`, `=`, `<` or `>` adds exactly one token and no report; the
\* token is BangEqual, EqualEqual, LessEqual or GreaterEqual when a `=`
\* follows, which is consumed with it, and Bang, Equal, Less or Greater when
\* anything else follows or the input ends, and then nothing more is
\* consumed.
C13_GreedyOperators ==
    [][\A op \in TwoCharOps :
           (stage = "Lexing" /\ cursor.iter # <<>> /\ Head(cursor.iter) = op[1]) =>
               LET rest == Tail(cursor.iter)
                   two  == rest # <<>> /\ Head(rest) = "="
               IN  /\ Len(cursor'.tokens) = Len(cursor.tokens) + 1
                   /\ cursor'.tokens[Len(cursor'.tokens)].kind = IF two THEN op[2] ELSE op[3]
                   /\ cursor'.iter = IF two THEN Tail(rest) ELSE rest
                   /\ scan_errors' = scan_errors
      ]_vars

\* the lexemes of a token sequence, one after the other
Lexemes(ts) == Concat([i \in 1..Len(ts) |-> ts[i].lex])

NotBlank(c) == c \notin Blank

\* C14: lexemes round-trip: the lexeme of every token is exactly the source
\* text the lexer consumed to produce it, and when the scan of a source text
\* without comments and strings returns Ok, the lexemes of its tokens, one
\* after the other, are the source text without its whitespace.
C14_LexemeRoundTrip ==
    [][/\ (stage = "Lexing" /\ Len(cursor'.tokens) = Len(cursor.tokens) + 1) =>
               cursor'.tokens[Len(cursor'.tokens)].lex =
                   SubSeq(cursor.iter, 1, Len(cursor.iter) - Len(cursor'.iter))
       /\ (lexed = NoScan /\ lexed'.st = "Ok"
            /\ \A i \in 1..Len(src) : src[i] \notin {"/", "\""}) =>
               Lexemes(lexed'.tokens) = SelectSeq(src, NotBlank)
      ]_vars

(***************************************************************************)
(* Properties of the expression parsers, checked on SpecExpr.              *)
(***************************************************************************)
Arith == {"Plus", "Minus", "Star", "Slash"}

\* the level of an arithmetic operator: the multiplicative ones above the
\* additive ones
Level(op) == IF op.kind \in {"Star", "Slash"} THEN 2 ELSE 1

\* the expression an operand token stands for
Atom(t) == IF t.kind = "Identifier" THEN Variable(t) ELSE Literal(t)

\* ts is  a op b op c
IsChain(ts) ==
    /\ Len(ts) = 5
    /\ \A i \in {1, 3, 5} : ts[i] \in Operands
    /\ \A i \in {2, 4} : ts[i].kind \in Arith

\* ts is  ( a op b ) op c
IsGrouped(ts) ==
    /\ Len(ts) = 7
    /\ ts[1].kind = "LeftParen" /\ ts[5].kind = "RightParen"
    /\ \A i \in {2, 4, 7} : ts[i] \in Operands
    /\ \A i \in {3, 6} : ts[i].kind \in Arith

\* what the precedence laws make of a chain and of a grouped expression
ByPrecedence(ts) ==
    IF IsChain(ts)
    THEN IF Level(ts[4]) > Level(ts[2])
         THEN Binary(Atom(ts[1]), ts[2], Binary(Atom(ts[3]), ts[4], Atom(ts[5])))
         ELSE Binary(Binary(Atom(ts[1]), ts[2], Atom(ts[3])), ts[4], Atom(ts[5]))
    ELSE Binary(Grouping(Binary(Atom(ts[2]), ts[3], Atom(ts[4]))), ts[6], Atom(ts[7]))

\* C15: precedence: `a op b op c` parses to Binary(a, op, Binary(b, op, c))
\* when the second operator is multiplicative and the first additive
\* (`a+b*c`), and to Binary(Binary(a, op, b), op, c) otherwise, operators of
\* one level associating to the left (`a-b-c`); `(a op b) op c` parses to a
\* Binary whose left operand is the Grouping of Binary(a, op, b).  Both
\* expression parsers do so, the one of parser.rs on the operands it has,
\* the literals.
C15_Precedence ==
    (IsChain(token_stream) \/ IsGrouped(token_stream)) =>
        /\ pratt # NoPRes => pratt = POk(ByPrecedence(token_stream), <<>>)
        /\ (descent # NoPRes /\ \A i \in 1..Len(token_stream) :
                                     token_stream[i].kind # "Identifier") =>
               descent = POk(ByPrecedence(token_stream), <<>>)

\* `1+x*1`: the multiplication is the right operand of the addition
C15_Witness ==
    /\ [i \in 1..Len(token_stream) |-> token_stream[i].kind] =
           <<"Number", "Plus", "Identifier", "Star", "Number">>
    /\ pratt.st = "Ok"
    /\ pratt.expr.tok.kind = "Plus"
    /\ pratt.expr.args[2].tag = "Binary"
    /\ pratt.expr.args[2].tok.kind = "Star"

\* ts is  - a op b   or   ! a op b
IsPrefixed(ts) ==
    /\ Len(ts) = 4
    /\ ts[1] \in PrefixToks
    /\ ts[2] \in Operands /\ ts[4] \in Operands
    /\ ts[3].kind \in Arith

\* C16: prefix `-` and `!` bind tighter than every infix operator, the
\* multiplicative ones included: `-a*b` parses to Binary(Unary(-, a), *, b)
\* and `-a/b` to Binary(Unary(-, a), /, b), never to Unary(-, Binary(a, op, b)).
C16_PrefixBindsTighter ==
    (IsPrefixed(token_stream) /\ pratt # NoPRes) =>
        pratt = POk(Binary(Unary(token_stream[1], Atom(token_stream[2])),
                           token_stream[3], Atom(token_stream[4])),
                    <<>>)

\* ts is  L = e  for an operand e and tokens L without `=` that the
\* expression parser of parser/expr.rs takes as one whole expression
IsAssignmentTo(ts, n) ==
    /\ Len(ts) = n + 2
    /\ ts[n + 1].kind = "Equal"
    /\ ts[n + 2] \in Operands
    /\ \A i \in 1..n : ts[i].kind # "Equal"
    /\ Pratt_expression(SubSeq(ts, 1, n)).st = "Ok"
    /\ Pratt_expression(SubSeq(ts, 1, n)).rest = <<>>

\* C17: the left-hand side of `=` must have parsed as a bare Variable:
\* `L = e` with L a literal, a Grouping, a Unary or a Binary returns the
\* InvalidAssignmentTarget error and no expression, with L a variable it is
\* Assignment(L, e), and `a = b = e` is Assignment(a, Assignment(b, e)).
C17_AssignmentTarget ==
    pratt # NoPRes =>
        /\ \A n \in 1..Len(token_stream) :
               IsAssignmentTo(token_stream, n) =>
                   IF Pratt_expression(SubSeq(token_stream, 1, n)).expr.tag = "Variable"
                   THEN pratt = POk(Assignment(token_stream[1], Atom(token_stream[n + 2])), <<>>)
                   ELSE pratt = PErr(Error("InvalidAssignmentTarget", <<>>, <<>>, <<>>), <<>>)
        /\ (/\ Len(token_stream) = 5
            /\ token_stream[1].kind = "Identifier" /\ token_stream[3].kind = "Identifier"
            /\ token_stream[2].kind = "Equal" /\ token_stream[4].kind = "Equal"
            /\ token_stream[5] \in Operands) =>
               pratt = POk(Assignment(token_stream[1],
                                      Assignment(token_stream[3], Atom(token_stream[5]))),
                           <<>>)

\* `x + 1 = 1`: the target is a Binary and the parser returned the error
C17_Witness ==
    /\ [i \in 1..Len(token_stream) |-> token_stream[i].kind] =
           <<"Identifier", "Plus", "Number", "Equal", "Number">>
    /\ pratt = PErr(Error("InvalidAssignmentTarget", <<>>, <<>>, <<>>), <<>>)

(***************************************************************************)
(* Properties of the interpreter, checked on SpecEval.                     *)
(***************************************************************************)
\* stmt is  print l + r;  for two literals
IsPrintSum(stmt) ==
    /\ stmt.tag = "Print"
    /\ stmt.expr.tag = "Binary"
    /\ stmt.expr.tok.kind = "Plus"
    /\ \A i \in {1, 2} : stmt.expr.args[i].tag = "Literal"

\* C18: typing of `+`: executing `print l + r;` writes the sum for two
\* Integers and the concatenation, left operand first, for two Strings, and
\* collects no report; for every other pair of operand types it writes
\* nothing and collects one InvalidTypes report that gives the types of the
\* two operands in their order and (Integer, Integer) and (String, String)
\* as the accepted pairs.
C18_PlusTyping ==
    [][(stage = "Interpreting" /\ program # <<>> /\ IsPrintSum(Head(program))) =>
           LET l == Head(program).expr.args[1].tok.literal
               r == Head(program).expr.args[2].tok.literal
           IN  CASE l.t = "Integer" /\ r.t = "Integer" ->
                        out' = Append(out, Digits(l.i + r.i)) /\ errs' = errs
                 [] l.t = "String" /\ r.t = "String" ->
                        out' = Append(out, l.s \o r.s) /\ errs' = errs
                 [] OTHER ->
                        /\ out' = out
                        /\ errs' = Append(errs,
                                          Error("InvalidTypes", <<"+">>, <<l.t, r.t>>,
                                                << <<"Integer", "Integer">>,
                                                   <<"String", "String">> >>))
      ]_vars

\* `print "a"+"b"; print 1+true;`: ab was written, and the report of the
\* second statement gives Integer and Boolean
C18_Witness ==
    /\ out = << <<"a", "b">> >>
    /\ Len(errs) = 1
    /\ errs[1].kind = "InvalidTypes"
    /\ errs[1].found = <<"Integer", "Boolean">>
    /\ nsteps = 2

RECURSIVE ReportsOf(_, _)
\* the reports of the statements of stmts that return one, in the order of
\* the statements, each statement executed in the environment the ones
\* before it have left
ReportsOf(stmts, e) ==
    IF stmts = <<>>
    THEN <<>>
    ELSE LET r == execute(Head(stmts), e)
         IN  (IF r.st = "Err" THEN <<r.err>> ELSE <<>>) \o ReportsOf(Tail(stmts), r.env)

RECURSIVE LinesOf(_, _)
\* the lines the print statements of stmts write, likewise
LinesOf(stmts, e) ==
    IF stmts = <<>>
    THEN <<>>
    ELSE LET r == execute(Head(stmts), e)
         IN  Printed(Head(stmts), r) \o LinesOf(Tail(stmts), r.env)

\* C19: a runtime error is not fatal for the statements after it: a
\* statement that returns a report adds that one report to the ones
\* collected and interpret goes on with the next statement, whatever was
\* collected before; when interpret returns, every statement has been
\* executed, the lines and definitions of the statements after a failing one
\* included, and it returns Ok(()) if and only if no statement returned a
\* report, and otherwise Err with the reports of all failing statements in
\* the order of the statements.
C19_ErrorsNotFatal ==
    [][/\ (stage = "Interpreting" /\ program # <<>>
            /\ execute(Head(program), env).st # "Panic") =>
               /\ program' = Tail(program)
               /\ stage' = "Interpreting"
               /\ nsteps' = nsteps + 1
               /\ env' = execute(Head(program), env).env
               /\ errs' = IF execute(Head(program), env).st = "Err"
                          THEN Append(errs, execute(Head(program), env).err)
                          ELSE errs
       /\ (stage = "Interpreting" /\ program = <<>>) =>
               /\ stage' = "Done"
               /\ nsteps = Len(parsed.stmts)
               /\ result' = "Ok" <=> errs = <<>>
               /\ result' = "Err" <=> errs # <<>>
               /\ errs' = ReportsOf(parsed.stmts, EnvNew)
               /\ out' = LinesOf(parsed.stmts, EnvNew)
      ]_vars

\* `print 1+true; print 1+2; print x;`: interpret returned Err with the
\* reports of the first and of the third statement, and 3 was written between
C19_Witness ==
    /\ stage = "Done"
    /\ result = "Err"
    /\ [i \in 1..Len(errs) |-> errs[i].kind] = <<"InvalidTypes", "InvalidIdent">>
    /\ out = << <<"3">> >>
    /\ nsteps = 3

\* C20: the interpreter is total: interpret never aborts, a division whose
\* right operand is the Integer 0 included, and when it returns it returns
\* Ok(()) or Err with at least one report.
C20_InterpreterTotal ==
    /\ status # "panicked"
    /\ stage # "Aborted"
    /\ stage = "Done" =>
           /\ result \in {"Ok", "Err"}
           /\ result = "Err" => errs # <<>>

(***************************************************************************)
(* Properties of blocks and of statements, checked on Spec.                *)
(***************************************************************************)
\* C21: block exit always restores the scope: entering a block keeps the
\* environment that was current and makes a scope one deeper current; no
\* statement inside the block, failing or not, touches the kept environment
\* or ends the block; a failing statement adds its report and the next one
\* is executed; and the exit, whatever reports were collected and at any
\* depth of nesting, makes the kept environment current again, one scope
\* less deep, and drops none of the reports.
C21_BlockExitRestores ==
    [][/\ Len(saved') = Len(saved) + 1 =>
               (Head(saved') = env /\ Tail(saved') = saved /\ Len(env') = Len(env) + 1)
       /\ Len(saved') = Len(saved) => saved' = saved
       /\ (Len(saved') = Len(saved) /\ saved # <<>> /\ last'.st = "Err") =>
               (errs' = Append(errs, last'.err) /\ status' = "running" /\ Len(env') = Len(env))
       /\ Len(saved') < Len(saved) =>
               /\ env' = Head(saved)
               /\ saved' = Tail(saved)
               /\ Len(env') = Len(env) - 1
               /\ errs' = errs
       /\ Len(env) = Len(saved) + 1
      ]_vars

\* `{ var x; print x; }`: the read of x failed inside the block, the block
\* was left all the same, and the top-level scope, without x, is current
C21_Witness ==
    /\ last.stmt.tag = "BlockExit"
    /\ last.dropped = {<<"x">>}
    /\ [i \in 1..Len(errs) |-> errs[i].kind] = <<"UninitialisedVar">>
    /\ nsteps = 3
    /\ saved = <<>>
    /\ env = EnvNew

(***************************************************************************)
(* Properties of assignment, definition and evaluation order, checked on   *)
(* SpecSide.                                                               *)
(***************************************************************************)
\* C22: executing the statement `name = value;` evaluates value to the end
\* first and assigns after that, whatever value is, an expression that reads
\* a variable (`x = x + 1`) or another assignment (`x = x = 2`) included:
\* the statement ends with the value assigned, or with the report of value
\* or of the assignment, and never aborts.
C22_AssignmentValueFirst ==
    [][(stage = "Interpreting" /\ program # <<>> /\ Head(program).tag = "Expr"
        /\ Head(program).expr.tag = "Assignment") =>
           LET target == Head(program).expr.tok
               v      == expression(Head(program).expr.args[1], env, FALSE)
               a      == assign(v.env, target, v.val)
           IN  /\ status' = "running"
               /\ v.st = "Err" => (env' = v.env /\ errs' = Append(errs, v.err))
               /\ v.st = "Ok" =>
                      /\ env' = a.env
                      /\ a.ok => (errs' = errs /\ last'.st = "Ok" /\ last'.val = v.val)
                      /\ ~a.ok => (Len(errs') = Len(errs) + 1 /\ last'.st = "Err")
      ]_vars

RECURSIVE HasAssignment(_)
\* the expression x has an Assignment node
HasAssignment(x) ==
    \/ x.tag = "Assignment"
    \/ \E i \in 1..Len(x.args) : HasAssignment(x.args[i])

\* C23 as stated: a `var` statement whose initialiser fails adds the report
\* of the initialiser and leaves the environment unchanged: the name is not
\* defined and a previous binding of the name keeps its value.
C23_FailedInitialiserLeavesEnv ==
    [][(stage = "Interpreting" /\ program # <<>> /\ Head(program).tag = "Var"
        /\ Head(program).expr # NoExpr
        /\ expression(Head(program).expr, env, FALSE).st = "Err") =>
           (env' = env /\ errs' = Append(errs, expression(Head(program).expr, env, FALSE).err))
      ]_vars

\* C23, amended: a `var` statement with an initialiser evaluates the
\* initialiser before it defines.  If the initialiser fails, its report is
\* added and define is not performed: the environment is the one the
\* evaluation of the initialiser has left, which is the environment of
\* before the statement if the initialiser has no assignment in it, and
\* otherwise differs from it by the assignments the initialiser made before
\* it failed.  If the initialiser succeeds the name is bound to its value in
\* the current scope; without an initialiser the name is bound as
\* uninitialised.
C23_DefVar ==
    [][(stage = "Interpreting" /\ program # <<>> /\ Head(program).tag = "Var") =>
           LET name == Head(program).name
               init == Head(program).expr
               v    == expression(init, env, FALSE)
           IN  IF init = NoExpr
               THEN env' = define(env, name, NoValue) /\ errs' = errs
               ELSE /\ v.st = "Err" =>
                           /\ env' = v.env
                           /\ ~HasAssignment(init) => env' = env
                           /\ errs' = Append(errs, v.err)
                    /\ v.st = "Ok" =>
                           /\ env' = define(v.env, name, v.val)
                           /\ ValueAt(env'[1], name) = v.val
                           /\ errs' = errs
      ]_vars

\* `var x = 1; var x = 1 + true; print x;`: the second statement failed and
\* x still reads 1
C23_Witness ==
    /\ nsteps = 3
    /\ [i \in 1..Len(errs) |-> errs[i].kind] = <<"InvalidTypes">>
    /\ out = << <<"1">> >>
    /\ parsed.stmts[2] = StmtVar(VarX, Failing)
    /\ ValueAt(env[1], VarX) = Integer(1)

\* C24: the operands of a Binary are evaluated from left to right: the left
\* operand is evaluated to the end before the right one starts, in the
\* environment the left one has left, so that the right operand of
\* `(x = 2) + x` reads 2; if the left operand fails, the right one is not
\* evaluated, nothing it would do is done, and the report of the left
\* operand is the outcome.
C24_LeftToRight ==
    [][(stage = "Interpreting" /\ program # <<>> /\ Head(program).tag = "Print"
        /\ Head(program).expr.tag = "Binary") =>
           LET b == Head(program).expr
               l == expression(b.args[1], env, FALSE)
               r == expression(b.args[2], l.env, FALSE)
           IN  /\ l.st = "Err" =>
                      (env' = l.env /\ errs' = Append(errs, l.err) /\ out' = out)
               /\ (l.st = "Ok" /\ r.st = "Err") =>
                      (env' = r.env /\ errs' = Append(errs, r.err) /\ out' = out)
               /\ (l.st = "Ok" /\ r.st = "Ok" /\ l.val.t = "Integer" /\ r.val.t = "Integer") =>
                      /\ env' = r.env
                      /\ errs' = errs
                      /\ out' = Append(out, Display(Integer(l.val.i + r.val.i)))
               /\ (b.args[1] = Grouping(Failing) /\ HasAssignment(b.args[2])) => env' = env
               /\ (b.args[1] = Grouping(Assignment(VarX, Lit(2))) /\ b.args[2] = Variable(VarX)
                   /\ get(env, VarX).found) =>
                      out' = Append(out, <<"4">>)
      ]_vars

\* `var x = 1; print (x = 2) + x;`: 4 was written
C24_Witness ==
    /\ nsteps = 2
    /\ parsed.stmts[1] = StmtVar(VarX, Lit(1))
    /\ out = << <<"4">> >>
    /\ errs = <<>>
    /\ ValueAt(env[1], VarX) = Integer(2)

StatementKeywords == {"Class", "Fun", "Var", "For", "If", "While", "Print", "Return"}

RECURSIVE FromStatement(_)
\* the tokens from the first statement keyword on, none when there is none
FromStatement(iter) ==
    IF iter = <<>> \/ Head(iter).kind \in StatementKeywords
    THEN iter
    ELSE FromStatement(Tail(iter))

\* C25: recovery discards the current token and, unless it was told of a
\* `;`, the tokens up to the first statement keyword, which it leaves in
\* place as the next token (nothing is left when there is no keyword); told
\* of a `;` it discards nothing further.
C25_SyncKeepsKeyword ==
    (recovered.called /\ token_stream # <<>>) =>
        /\ recovered.some
        /\ recovered.rest = IF recovered.prev = "Semicolon"
                            THEN Tail(token_stream)
                            ELSE FromStatement(Tail(token_stream))

RECURSIVE Handled(_)
\* every Unary node of x has the operator - or !, every Binary node one of
\* + - * /
Handled(x) ==
    CASE x.tag = "Unary"  -> x.tok.kind \in {"Minus", "Bang"} /\ Handled(x.args[1])
      [] x.tag = "Binary" -> x.tok.kind \in Arith /\ Handled(x.args[1]) /\ Handled(x.args[2])
      [] OTHER            -> \A i \in 1..Len(x.args) : Handled(x.args[i])

\* C26: in an expression the parser has built, every Unary node has the
\* operator - or ! and every Binary node one of + - * /, and its evaluation
\* never ends in InvalidOperator.
C26_OperatorsHandled ==
    pratt.st = "Ok" =>
        /\ Handled(pratt.expr)
        /\ LET v == expression(pratt.expr, EnvNew, FALSE)
           IN  v.st = "Err" => v.err.kind # "InvalidOperator"

RECURSIVE LiteralsCarry(_)
\* every Literal node of x is built on a token that carries a literal value
LiteralsCarry(x) ==
    IF x.tag = "Literal"
    THEN x.tok.literal # NoValue
    ELSE \A i \in 1..Len(x.args) : LiteralsCarry(x.args[i])

\* C27: in an expression either parser has built, every Literal node is
\* built on a token that carries a literal value, and the evaluation of the
\* expression never stops on a Literal without one.
C27_LiteralsCarryValue ==
    \A r \in {pratt, descent} :
        r.st = "Ok" =>
            /\ LiteralsCarry(r.expr)
            /\ expression(r.expr, EnvNew, FALSE).st # "Panic"

\* C28: the scan of every source text returns, with Ok or with Err and at
\* least one report, and never ends otherwise; the scan of the text `/`
\* returns Ok with one Slash token.
C28_LexerTotal ==
    /\ lexed.st \in {"None", "Ok", "Err"}
    /\ lexed.st = "Err" => lexed.errs # <<>>
    /\ (stage # "Lexing" /\ src = <<"/">>) =>
           /\ lexed.st = "Ok"
           /\ [i \in 1..Len(lexed.tokens) |-> lexed.tokens[i].kind] = <<"Slash">>

\* the length of the longest prefix of cs made of digits and at most one `.`
NumberRun(cs) ==
    LET n == Span(cs, AsciiDigits)
    IN  IF n < Len(cs) /\ cs[n + 1] = "."
        THEN n + 1 + Span(Drop(cs, n + 1), AsciiDigits)
        ELSE n

\* C29: the turn of the loop on a digit adds one Number token whose lexeme
\* is the longest run of digits with at most one `.`: an Integer literal
\* when the run has no `.`, a Float literal when it has one; a second `.` is
\* left in the input.
C29_NumberRun ==
    [][(stage = "Lexing" /\ cursor.iter # <<>> /\ Head(cursor.iter) \in AsciiDigits) =>
           LET n   == NumberRun(cursor.iter)
               num == SubSeq(cursor.iter, 1, n)
           IN  /\ stage' = "Lexing"
               /\ scan_errors' = scan_errors
               /\ cursor'.iter = Drop(cursor.iter, n)
               /\ cursor'.tokens =
                      Append(cursor.tokens,
                             Token("Number", num,
                                   IF "." \in {num[i] : i \in 1..n}
                                   THEN Float(num)
                                   ELSE Integer(ParseInt(num)),
                                   cursor.line))
      ]_vars

\* C30: the turn of the loop on a letter adds one token whose lexeme is the
\* longest run of letters and digits 0-9: the keyword token when the whole
\* run is a reserved word, an Identifier without literal otherwise.
C30_WordRun ==
    [][(stage = "Lexing" /\ cursor.iter # <<>> /\ Head(cursor.iter) \in Letters) =>
           LET n    == Span(cursor.iter, Letters \cup AsciiDigits)
               word == SubSeq(cursor.iter, 1, n)
           IN  /\ stage' = "Lexing"
               /\ scan_errors' = scan_errors
               /\ cursor'.iter = Drop(cursor.iter, n)
               /\ Len(cursor'.tokens) = Len(cursor.tokens) + 1
               /\ LET t == cursor'.tokens[Len(cursor'.tokens)]
                  IN  /\ t.lex = word
                      /\ t.kind = IF HasEntry(Reserved, word)
                                  THEN Entry(Reserved, word)
                                  ELSE "Identifier"
                      /\ t.kind = "Identifier" => t.literal = NoValue
      ]_vars

====
